---- MODULE Spec2Model ----
(***************************************************************************)
(* A model of the agent command execution and sandboxing subsystem of      *)
(* server/routes.ts: the workspace path check, the file tools of           *)
(* executeTool and the /api/files handlers acting on a model of the file   *)
(* system, the command policies and the one-shot process runner, the       *)
(* parser and the agent turn of /api/chat, and the pty sessions of         *)
(* /ws/terminal.  Strings are TLA+ strings; a character is a string of     *)
(* length 1.                                                               *)
(***************************************************************************)
EXTENDS Integers, Sequences, FiniteSets, TLC

VARIABLES
    fs,        \* the file system: absolute path -> [kind, content]
    req,       \* the last request served: [via, name, args]
    resp,      \* the last ToolResult or HTTP response produced
    spawned,   \* the children the one-shot runner started: {[via, cmd, cwd, env]}
    nops,      \* number of requests served so far
    proc,      \* the child of the one-shot runner that is being awaited
    verdicts,  \* the policy decisions made so far, in order: <<[policy, cmd, blocked]>>
    turn,      \* the agent turn of /api/chat in progress
    sessions,  \* the pty sessions: id -> [ws, pty, kills, ...]
    ptyProcesses,  \* the session registry (routes.ts 15): the ids it holds
    client     \* the terminal component of the browser: its socket and timers

vars == <<fs, req, resp, spawned, nops, proc, verdicts, turn, sessions, ptyProcesses, client>>

runnerVars == <<proc, verdicts>>
chatVars   == <<turn>>
ptyVars    == <<sessions, ptyProcesses, client>>

(***************************************************************************)
(* Bounds of the model.                                                    *)
(***************************************************************************)
MaxOps == 2

(***************************************************************************)
(* String helpers (String.prototype.startsWith, includes, indexOf).        *)
(***************************************************************************)
Char(s, i) == SubSeq(s, i, i)

StartsWith(s, p) == Len(s) >= Len(p) /\ SubSeq(s, 1, Len(p)) = p

EndsWith(s, p) == Len(s) >= Len(p) /\ SubSeq(s, Len(s) - Len(p) + 1, Len(s)) = p

\* String.prototype.indexOf(sub, from), 1-based; 0 when sub does not occur.
IndexOfFrom(s, sub, from) ==
    LET hits == {j \in from..(Len(s) - Len(sub) + 1) : SubSeq(s, j, j + Len(sub) - 1) = sub}
    IN  IF hits = {} THEN 0 ELSE CHOOSE j \in hits : \A k \in hits : j <= k

Includes(s, sub) == IndexOfFrom(s, sub, 1) # 0

(***************************************************************************)
(* path.join, path.normalize and path.dirname of Node's posix path module, *)
(* for an absolute first argument (WORKSPACE_DIR is absolute).             *)
(***************************************************************************)
RECURSIVE SplitSlash(_, _, _)
\* s.split("/"): the segments of s between separators, empty segments kept.
SplitSlash(s, cur, acc) ==
    IF s = "" THEN Append(acc, cur)
    ELSE IF Head(s) = "/" THEN SplitSlash(Tail(s), "", Append(acc, cur))
    ELSE SplitSlash(Tail(s), cur \o Head(s), acc)

RECURSIVE NormalizeSegs(_, _)
\* normalizeString(path, allowAboveRoot = false): "." and empty segments are
\* dropped, ".." removes the segment before it and is dropped at the root.
NormalizeSegs(segs, res) ==
    IF segs = <<>> THEN res
    ELSE LET h == Head(segs) IN
         IF h = "" \/ h = "." THEN NormalizeSegs(Tail(segs), res)
         ELSE IF h = ".."
              THEN NormalizeSegs(Tail(segs),
                                 IF res = <<>> THEN res ELSE SubSeq(res, 1, Len(res) - 1))
              ELSE NormalizeSegs(Tail(segs), Append(res, h))

RECURSIVE JoinSlash(_)
JoinSlash(segs) ==
    IF segs = <<>> THEN ""
    ELSE IF Len(segs) = 1 THEN Head(segs)
    ELSE Head(segs) \o "/" \o JoinSlash(Tail(segs))

\* path.normalize of an absolute path: a trailing separator is kept.
PathNormalize(p) ==
    LET body == JoinSlash(NormalizeSegs(SplitSlash(p, "", <<>>), <<>>))
    IN  IF body = "" THEN "/"
        ELSE IF EndsWith(p, "/") THEN "/" \o body \o "/"
        ELSE "/" \o body

\* path.join(base, rel) with base absolute: zero-length arguments are skipped.
PathJoin(base, rel) ==
    IF rel = "" THEN PathNormalize(base) ELSE PathNormalize(base \o "/" \o rel)

\* The path without trailing separators: the name the file system looks up.
RECURSIVE StripSlash(_)
StripSlash(p) ==
    IF Len(p) > 1 /\ EndsWith(p, "/") THEN StripSlash(SubSeq(p, 1, Len(p) - 1)) ELSE p

\* path.dirname of a normalized absolute path.
PathDirname(p) ==
    LET q    == StripSlash(p)
        cuts == {i \in 1..Len(q) : Char(q, i) = "/"}
        last == CHOOSE i \in cuts : \A k \in cuts : k <= i
    IN  IF q = "/" \/ last = 1 THEN "/" ELSE SubSeq(q, 1, last - 1)

(***************************************************************************)
(* The workspace root (routes.ts line 18): path.join(process.cwd(),        *)
(* "workspace"), with the server started in /app.                          *)
(***************************************************************************)
ProcessCwd == "/app"

WORKSPACE_DIR == PathJoin(ProcessCwd, "workspace")

(***************************************************************************)
(* JavaScript values as they reach the handlers: a tag and a payload.      *)
(* Numbers and booleans carry their JSON text as the payload.              *)
(***************************************************************************)
Undefined == [t |-> "undefined", s |-> ""]
Null      == [t |-> "null", s |-> ""]
Str(x)    == [t |-> "string", s |-> x]
Num(x)    == [t |-> "number", s |-> x]
Bool(x)   == [t |-> "boolean", s |-> x]
Opaque(x) == [t |-> x, s |-> ""]          \* a nested array or object

NoFields == [k \in {} |-> Undefined]

\* A decoded tool argument value: a scalar, or an object with fields.
ObjArgs(fields) == [t |-> "object", s |-> "", f |-> fields]
ScalarArgs(v)   == [t |-> v.t, s |-> v.s, f |-> NoFields]

\* tool.args.key as destructuring reads it (undefined when absent).
Field(args, key) ==
    IF args.t = "object" /\ key \in DOMAIN args.f THEN args.f[key] ELSE Undefined

\* Destructuring null or undefined throws a TypeError.
CanDestructure(args) == args.t \notin {"null", "undefined"}

\* JavaScript truthiness, as in `content || ""` and `if (!filePath)`.
Truthy(v) ==
    CASE v.t \in {"undefined", "null"} -> FALSE
      [] v.t = "string"  -> v.s # ""
      [] v.t = "number"  -> v.s \notin {"0", "-0"}
      [] v.t = "boolean" -> v.s = "true"
      [] OTHER -> TRUE

\* a || b
OrElse(a, b) == IF Truthy(a) THEN a ELSE b

(***************************************************************************)
(* The file system and Node's synchronous fs calls.  A call returns        *)
(* [err, fs]: err = "" on success, else the thrown error's message, and fs *)
(* the file system after the call.  Symbolic links are not modelled.       *)
(***************************************************************************)
Dir        == [kind |-> "dir", content |-> ""]
File(data) == [kind |-> "file", content |-> data]

Ok(f)        == [err |-> "", fs |-> f]
Throw(e, f)  == [err |-> e, fs |-> f]

FsExists(f, p) ==
    LET k == StripSlash(p)
    IN  k \in DOMAIN f /\ (EndsWith(p, "/") => f[k].kind = "dir")

FsIsDir(f, p)  == FsExists(f, p) /\ f[StripSlash(p)].kind = "dir"
FsIsFile(f, p) == FsExists(f, p) /\ f[StripSlash(p)].kind = "file"

FsPut(f, k, node) == [x \in DOMAIN f \cup {k} |-> IF x = k THEN node ELSE f[x]]

\* k and everything below it.
FsUnder(f, k) ==
    {x \in DOMAIN f : x = k \/ StartsWith(x, IF k = "/" THEN "/" ELSE k \o "/")}

RECURSIVE PathChain(_)
\* k and all its ancestors.
PathChain(k) == IF k = "/" THEN {"/"} ELSE {k} \cup PathChain(PathDirname(k))

\* fs.mkdirSync(p, { recursive: true })
MkdirSyncRecursive(f, p) ==
    LET k     == StripSlash(p)
        chain == PathChain(k)
    IN  IF \E x \in chain : x \in DOMAIN f /\ f[x].kind = "file"
        THEN Throw(IF k \in DOMAIN f THEN "EEXIST: file already exists, mkdir"
                   ELSE "ENOTDIR: not a directory, mkdir", f)
        ELSE Ok([x \in DOMAIN f \cup chain |-> IF x \in DOMAIN f THEN f[x] ELSE Dir])

\* What open(p, O_WRONLY | O_CREAT) answers before any byte is written.
OpenForWriteError(f, p) ==
    LET k == StripSlash(p) IN
    IF k \in DOMAIN f /\ f[k].kind = "dir" THEN "EISDIR: illegal operation on a directory, open"
    ELSE IF PathDirname(k) \notin DOMAIN f THEN "ENOENT: no such file or directory, open"
    ELSE IF f[PathDirname(k)].kind = "file" THEN "ENOTDIR: not a directory, open"
    ELSE IF EndsWith(p, "/") THEN
         (IF k \in DOMAIN f THEN "ENOTDIR: not a directory, open"
          ELSE "EISDIR: illegal operation on a directory, open")
    ELSE ""

\* fs.writeFileSync(p, data, "utf-8"): data that is no string is rejected
\* before the file is opened.
WriteFileSync(f, p, data) ==
    IF data.t # "string"
    THEN Throw("The \"data\" argument must be of type string or an instance of Buffer, TypedArray, or DataView", f)
    ELSE IF OpenForWriteError(f, p) # "" THEN Throw(OpenForWriteError(f, p), f)
    ELSE Ok(FsPut(f, StripSlash(p), File(data.s)))

\* fs.appendFileSync(p, data, "utf-8")
AppendFileSync(f, p, data) ==
    LET k == StripSlash(p) IN
    IF data.t # "string"
    THEN Throw("The \"data\" argument must be of type string or an instance of Buffer, TypedArray, or DataView", f)
    ELSE IF OpenForWriteError(f, p) # "" THEN Throw(OpenForWriteError(f, p), f)
    ELSE Ok(FsPut(f, k, File((IF k \in DOMAIN f THEN f[k].content ELSE "") \o data.s)))

\* fs.readFileSync(p, "utf-8"): [err, data]
ReadFileSync(f, p) ==
    IF ~FsExists(f, p) THEN [err |-> "ENOENT: no such file or directory, open", data |-> ""]
    ELSE IF FsIsDir(f, p) THEN [err |-> "EISDIR: illegal operation on a directory, read", data |-> ""]
    ELSE [err |-> "", data |-> f[StripSlash(p)].content]

\* fs.unlinkSync(p)
UnlinkSync(f, p) ==
    IF ~FsExists(f, p) THEN Throw("ENOENT: no such file or directory, unlink", f)
    ELSE IF FsIsDir(f, p) THEN Throw("EISDIR: illegal operation on a directory, unlink", f)
    ELSE Ok([x \in DOMAIN f \ {StripSlash(p)} |-> f[x]])

\* fs.rmSync(p, { recursive: true })
RmSyncRecursive(f, p) ==
    IF ~FsExists(f, p) THEN Throw("ENOENT: no such file or directory, rm", f)
    ELSE Ok([x \in DOMAIN f \ FsUnder(f, StripSlash(p)) |-> f[x]])

\* rename(2): move the entry at `from`, with everything below it, to `to`.
RenameSync(f, from, to) ==
    LET a     == StripSlash(from)
        b     == StripSlash(to)
        moved == FsUnder(f, a)
        gone  == moved \cup FsUnder(f, b)
        dest(x) == b \o SubSeq(x, Len(a) + 1, Len(x))
        src(y)  == a \o SubSeq(y, Len(b) + 1, Len(y))
        newKeys == {dest(x) : x \in moved}
    IN  IF ~FsExists(f, from) THEN Throw("ENOENT: no such file or directory, rename", f)
        ELSE IF PathDirname(b) \notin DOMAIN f THEN Throw("ENOENT: no such file or directory, rename", f)
        ELSE IF f[PathDirname(b)].kind = "file" THEN Throw("ENOTDIR: not a directory, rename", f)
        ELSE IF a = b THEN Ok(f)
        ELSE IF f[a].kind = "dir" /\ StartsWith(b, a \o "/") THEN Throw("EINVAL: invalid argument, rename", f)
        ELSE IF f[a].kind = "dir" /\ b \in DOMAIN f /\ f[b].kind = "file" THEN Throw("ENOTDIR: not a directory, rename", f)
        ELSE IF f[a].kind = "dir" /\ b \in DOMAIN f /\ FsUnder(f, b) # {b} THEN Throw("ENOTEMPTY: directory not empty, rename", f)
        ELSE IF f[a].kind = "file" /\ b \in DOMAIN f /\ f[b].kind = "dir" THEN Throw("EISDIR: illegal operation on a directory, rename", f)
        ELSE IF f[a].kind = "file" /\ EndsWith(to, "/") THEN Throw("ENOTDIR: not a directory, rename", f)
        ELSE Ok([y \in (DOMAIN f \ gone) \cup newKeys |-> IF y \in newKeys THEN f[src(y)] ELSE f[y]])

\* fs.copyFileSync(from, to)
CopyFileSync(f, from, to) ==
    IF ~FsExists(f, from) THEN Throw("ENOENT: no such file or directory, copyfile", f)
    ELSE IF FsIsDir(f, from) THEN Throw("EISDIR: illegal operation on a directory, copyfile", f)
    ELSE IF OpenForWriteError(f, to) # "" THEN Throw(OpenForWriteError(f, to), f)
    ELSE Ok(FsPut(f, StripSlash(to), File(f[StripSlash(from)].content)))

(***************************************************************************)
(* Responses.  One record shape serves ToolResult (kind "tool") and the    *)
(* JSON body of an HTTP response (kind "http", with its status code).      *)
(***************************************************************************)
NoResp == [kind |-> "none", tool |-> "", success |-> FALSE, status |-> 0,
           error |-> Undefined, result |-> Undefined,
           stdout |-> Undefined, stderr |-> Undefined, code |-> Undefined]

\* { tool, success: true, result }
ToolOk(tool, text) == [NoResp EXCEPT !.kind = "tool", !.tool = tool, !.success = TRUE,
                                     !.result = Str(text)]

\* { tool, success: false, error }
ToolFail(tool, message) == [NoResp EXCEPT !.kind = "tool", !.tool = tool,
                                          !.error = Str(message)]

\* res.status(code).json({ error })
HttpError(route, code, message) == [NoResp EXCEPT !.kind = "http", !.tool = route,
                                                  !.status = code, !.error = Str(message)]

\* res.json({ success: true, ... })
HttpOk(route, value) == [NoResp EXCEPT !.kind = "http", !.tool = route, !.status = 200,
                                       !.success = TRUE, !.result = value]

\* What a handler body does: it returns a response, or throws; fs is the file
\* system it leaves behind either way.
Returned(r, f) == [threw |-> FALSE, msg |-> "", res |-> r, fs |-> f]
Thrown(m, f)   == [threw |-> TRUE, msg |-> m, res |-> NoResp, fs |-> f]

DestructureError == "Cannot destructure property of 'tool.args' as it is null or undefined"
PathTypeError    == "The \"path\" argument must be of type string"

(***************************************************************************)
(* The workspace check every file handler makes on the joined path:        *)
(* fullPath.startsWith(WORKSPACE_DIR).                                     *)
(***************************************************************************)
InsideWorkspace(fullPath) == StartsWith(fullPath, WORKSPACE_DIR)

(***************************************************************************)
(* executeTool: the file tools (routes.ts 511-562, 622-639, 660-696).      *)
(***************************************************************************)
\* create_file that writes without creating the missing parent directories.
Tool_create_file_NoMkdir(f, args) ==
    IF ~CanDestructure(args) THEN Thrown(DestructureError, f)
    ELSE LET filePath == Field(args, "path")
             content  == Field(args, "content")
         IN
    IF filePath.t # "string" THEN Thrown(PathTypeError, f)
    ELSE LET fullPath == PathJoin(WORKSPACE_DIR, filePath.s) IN
    IF ~InsideWorkspace(fullPath) THEN Returned(ToolFail("create_file", "Access denied"), f)
    ELSE LET w == WriteFileSync(f, fullPath, OrElse(content, Str(""))) IN
    IF w.err # "" THEN Thrown(w.err, w.fs)
    ELSE Returned(ToolOk("create_file", "File created: " \o filePath.s), w.fs)

Tool_create_file(f, args) ==
    IF ~CanDestructure(args) THEN Thrown(DestructureError, f)
    ELSE LET filePath == Field(args, "path")
             content  == Field(args, "content")
         IN
    IF filePath.t # "string" THEN Thrown(PathTypeError, f)
    ELSE LET fullPath == PathJoin(WORKSPACE_DIR, filePath.s) IN
    IF ~InsideWorkspace(fullPath) THEN Returned(ToolFail("create_file", "Access denied"), f)
    ELSE LET dir == PathDirname(fullPath)
             m   == IF ~FsExists(f, dir) THEN MkdirSyncRecursive(f, dir) ELSE Ok(f)
             w   == WriteFileSync(m.fs, fullPath, OrElse(content, Str("")))
         IN
    IF m.err # "" THEN Thrown(m.err, m.fs)
    ELSE IF w.err # "" THEN Thrown(w.err, w.fs)
    ELSE Returned(ToolOk("create_file", "File created: " \o filePath.s), w.fs)

\* edit_file without the check of existsSync: it writes what it is given.
Tool_edit_file_Creates(f, args) ==
    IF ~CanDestructure(args) THEN Thrown(DestructureError, f)
    ELSE LET filePath == Field(args, "path")
             content  == Field(args, "content")
         IN
    IF filePath.t # "string" THEN Thrown(PathTypeError, f)
    ELSE LET fullPath == PathJoin(WORKSPACE_DIR, filePath.s)
             w        == WriteFileSync(f, fullPath, content)
         IN
    IF ~InsideWorkspace(fullPath) THEN Returned(ToolFail("edit_file", "Access denied"), f)
    ELSE IF w.err # "" THEN Thrown(w.err, w.fs)
    ELSE Returned(ToolOk("edit_file", "File updated: " \o filePath.s), w.fs)

Tool_edit_file(f, args) ==
    IF ~CanDestructure(args) THEN Thrown(DestructureError, f)
    ELSE LET filePath == Field(args, "path")
             content  == Field(args, "content")
         IN
    IF filePath.t # "string" THEN Thrown(PathTypeError, f)
    ELSE LET fullPath == PathJoin(WORKSPACE_DIR, filePath.s)
             w        == WriteFileSync(f, fullPath, content)
         IN
    IF ~InsideWorkspace(fullPath) THEN Returned(ToolFail("edit_file", "Access denied"), f)
    ELSE IF ~FsExists(f, fullPath) THEN Returned(ToolFail("edit_file", "File not found"), f)
    ELSE IF w.err # "" THEN Thrown(w.err, w.fs)
    ELSE Returned(ToolOk("edit_file", "File updated: " \o filePath.s), w.fs)

Tool_read_file(f, args) ==
    IF ~CanDestructure(args) THEN Thrown(DestructureError, f)
    ELSE LET filePath == Field(args, "path") IN
    IF filePath.t # "string" THEN Thrown(PathTypeError, f)
    ELSE LET fullPath == PathJoin(WORKSPACE_DIR, filePath.s)
             r        == ReadFileSync(f, fullPath)
         IN
    IF ~InsideWorkspace(fullPath) THEN Returned(ToolFail("read_file", "Access denied"), f)
    ELSE IF ~FsExists(f, fullPath) THEN Returned(ToolFail("read_file", "File not found"), f)
    ELSE IF r.err # "" THEN Thrown(r.err, f)
    ELSE Returned(ToolOk("read_file", r.data), f)

Tool_delete_file(f, args) ==
    IF ~CanDestructure(args) THEN Thrown(DestructureError, f)
    ELSE LET filePath == Field(args, "path") IN
    IF filePath.t # "string" THEN Thrown(PathTypeError, f)
    ELSE LET fullPath == PathJoin(WORKSPACE_DIR, filePath.s)
             u        == UnlinkSync(f, fullPath)
         IN
    IF ~InsideWorkspace(fullPath) THEN Returned(ToolFail("delete_file", "Access denied"), f)
    ELSE IF ~FsExists(f, fullPath) THEN Returned(ToolFail("delete_file", "File not found"), f)
    ELSE IF u.err # "" THEN Thrown(u.err, u.fs)
    ELSE Returned(ToolOk("delete_file", "File deleted: " \o filePath.s), u.fs)

Tool_append_file(f, args) ==
    IF ~CanDestructure(args) THEN Thrown(DestructureError, f)
    ELSE LET filePath == Field(args, "path")
             content  == Field(args, "content")
         IN
    IF filePath.t # "string" THEN Thrown(PathTypeError, f)
    ELSE LET fullPath == PathJoin(WORKSPACE_DIR, filePath.s) IN
    IF ~InsideWorkspace(fullPath) THEN Returned(ToolFail("append_file", "Access denied"), f)
    ELSE IF ~FsExists(f, fullPath)
    THEN LET dir == PathDirname(fullPath)
             m   == IF ~FsExists(f, dir) THEN MkdirSyncRecursive(f, dir) ELSE Ok(f)
             w   == WriteFileSync(m.fs, fullPath, OrElse(content, Str("")))
         IN  IF m.err # "" THEN Thrown(m.err, m.fs)
             ELSE IF w.err # "" THEN Thrown(w.err, w.fs)
             ELSE Returned(ToolOk("append_file", "Appended to: " \o filePath.s), w.fs)
    ELSE LET a == AppendFileSync(f, fullPath, OrElse(content, Str(""))) IN
         IF a.err # "" THEN Thrown(a.err, a.fs)
         ELSE Returned(ToolOk("append_file", "Appended to: " \o filePath.s), a.fs)

Tool_mkdir(f, args) ==
    IF ~CanDestructure(args) THEN Thrown(DestructureError, f)
    ELSE LET dirPath == Field(args, "path") IN
    IF dirPath.t # "string" THEN Thrown(PathTypeError, f)
    ELSE LET fullPath == PathJoin(WORKSPACE_DIR, dirPath.s)
             m        == MkdirSyncRecursive(f, fullPath)
         IN
    IF ~InsideWorkspace(fullPath) THEN Returned(ToolFail("mkdir", "Access denied"), f)
    ELSE IF m.err # "" THEN Thrown(m.err, m.fs)
    ELSE Returned(ToolOk("mkdir", "Directory created: " \o dirPath.s), m.fs)

Tool_move_file(f, args) ==
    IF ~CanDestructure(args) THEN Thrown(DestructureError, f)
    ELSE LET from == Field(args, "from")
             to   == Field(args, "to")
         IN
    IF from.t # "string" \/ to.t # "string" THEN Thrown(PathTypeError, f)
    ELSE LET fromPath == PathJoin(WORKSPACE_DIR, from.s)
             toPath   == PathJoin(WORKSPACE_DIR, to.s)
             r        == RenameSync(f, fromPath, toPath)
         IN
    IF ~InsideWorkspace(fromPath) \/ ~InsideWorkspace(toPath)
    THEN Returned(ToolFail("move_file", "Access denied"), f)
    ELSE IF ~FsExists(f, fromPath) THEN Returned(ToolFail("move_file", "Source file not found"), f)
    ELSE IF r.err # "" THEN Thrown(r.err, r.fs)
    ELSE Returned(ToolOk("move_file", "Moved " \o from.s \o " to " \o to.s), r.fs)

Tool_copy_file(f, args) ==
    IF ~CanDestructure(args) THEN Thrown(DestructureError, f)
    ELSE LET from == Field(args, "from")
             to   == Field(args, "to")
         IN
    IF from.t # "string" \/ to.t # "string" THEN Thrown(PathTypeError, f)
    ELSE LET fromPath == PathJoin(WORKSPACE_DIR, from.s)
             toPath   == PathJoin(WORKSPACE_DIR, to.s)
             c        == CopyFileSync(f, fromPath, toPath)
         IN
    IF ~InsideWorkspace(fromPath) \/ ~InsideWorkspace(toPath)
    THEN Returned(ToolFail("copy_file", "Access denied"), f)
    ELSE IF ~FsExists(f, fromPath) THEN Returned(ToolFail("copy_file", "Source file not found"), f)
    ELSE IF c.err # "" THEN Thrown(c.err, c.fs)
    ELSE Returned(ToolOk("copy_file", "Copied " \o from.s \o " to " \o to.s), c.fs)

\* list_files: buildFileTree(WORKSPACE_DIR) reads the tree (readdirSync throws
\* when the root is missing or no directory); the listing's text is not modelled.
Tool_list_files(f, args) ==
    IF WORKSPACE_DIR \notin DOMAIN f THEN Thrown("ENOENT: no such file or directory, scandir", f)
    ELSE IF f[WORKSPACE_DIR].kind # "dir" THEN Thrown("ENOTDIR: not a directory, scandir", f)
    ELSE Returned(ToolOk("list_files", "(listing)"), f)

(***************************************************************************)
(* The /api/files handlers (routes.ts 155-297).  Each body runs inside the *)
(* handler's try; HttpHandler below is the catch.                          *)
(***************************************************************************)
Http_read(f, filePath) ==
    IF ~Truthy(filePath) THEN Returned(HttpError("/api/files/read", 400, "Path is required"), f)
    ELSE IF filePath.t # "string" THEN Thrown(PathTypeError, f)
    ELSE LET fullPath == PathJoin(WORKSPACE_DIR, filePath.s)
             r        == ReadFileSync(f, fullPath)
         IN
    IF ~InsideWorkspace(fullPath) THEN Returned(HttpError("/api/files/read", 403, "Access denied"), f)
    ELSE IF ~FsExists(f, fullPath) THEN Returned(HttpError("/api/files/read", 404, "File not found"), f)
    ELSE IF r.err # "" THEN Thrown(r.err, f)
    ELSE Returned(HttpOk("/api/files/read", Str(r.data)), f)

Http_write(f, filePath, content, createOnly) ==
    IF ~Truthy(filePath) THEN Returned(HttpError("/api/files/write", 400, "Path is required"), f)
    ELSE IF filePath.t # "string" THEN Thrown(PathTypeError, f)
    ELSE LET fullPath == PathJoin(WORKSPACE_DIR, filePath.s) IN
    IF ~InsideWorkspace(fullPath) THEN Returned(HttpError("/api/files/write", 403, "Access denied"), f)
    ELSE IF Truthy(createOnly) /\ FsExists(f, fullPath)
    THEN Returned(HttpError("/api/files/write", 409, "File already exists"), f)
    ELSE LET dir == PathDirname(fullPath)
             m   == IF ~FsExists(f, dir) THEN MkdirSyncRecursive(f, dir) ELSE Ok(f)
             w   == WriteFileSync(m.fs, fullPath, OrElse(content, Str("")))
         IN
    IF m.err # "" THEN Thrown(m.err, m.fs)
    ELSE IF w.err # "" THEN Thrown(w.err, w.fs)
    ELSE Returned(HttpOk("/api/files/write", filePath), w.fs)

Http_mkdir(f, folderPath, createOnly) ==
    IF ~Truthy(folderPath) THEN Returned(HttpError("/api/files/mkdir", 400, "Path is required"), f)
    ELSE IF folderPath.t # "string" THEN Thrown(PathTypeError, f)
    ELSE LET fullPath == PathJoin(WORKSPACE_DIR, folderPath.s)
             m        == MkdirSyncRecursive(f, fullPath)
         IN
    IF ~InsideWorkspace(fullPath) THEN Returned(HttpError("/api/files/mkdir", 403, "Access denied"), f)
    ELSE IF FsExists(f, fullPath)
    THEN (IF Truthy(createOnly)
          THEN Returned(HttpError("/api/files/mkdir", 409, "Folder already exists"), f)
          ELSE Returned(HttpOk("/api/files/mkdir", folderPath), f))
    ELSE IF m.err # "" THEN Thrown(m.err, m.fs)
    ELSE Returned(HttpOk("/api/files/mkdir", folderPath), m.fs)

Http_delete(f, filePath) ==
    IF ~Truthy(filePath) THEN Returned(HttpError("/api/files", 400, "Path is required"), f)
    ELSE IF filePath.t # "string" THEN Thrown(PathTypeError, f)
    ELSE LET fullPath == PathJoin(WORKSPACE_DIR, filePath.s)
             d        == IF FsIsDir(f, fullPath) THEN RmSyncRecursive(f, fullPath)
                         ELSE UnlinkSync(f, fullPath)
         IN
    IF ~InsideWorkspace(fullPath) THEN Returned(HttpError("/api/files", 403, "Access denied"), f)
    ELSE IF ~FsExists(f, fullPath) THEN Returned(HttpError("/api/files", 404, "File not found"), f)
    ELSE IF d.err # "" THEN Thrown(d.err, d.fs)
    ELSE Returned(HttpOk("/api/files", Undefined), d.fs)

Http_rename(f, oldPath, newPath) ==
    IF ~Truthy(oldPath) \/ ~Truthy(newPath)
    THEN Returned(HttpError("/api/files/rename", 400, "Old and new paths are required"), f)
    ELSE IF oldPath.t # "string" \/ newPath.t # "string" THEN Thrown(PathTypeError, f)
    ELSE LET fullOldPath == PathJoin(WORKSPACE_DIR, oldPath.s)
             fullNewPath == PathJoin(WORKSPACE_DIR, newPath.s)
             r           == RenameSync(f, fullOldPath, fullNewPath)
         IN
    IF ~InsideWorkspace(fullOldPath) \/ ~InsideWorkspace(fullNewPath)
    THEN Returned(HttpError("/api/files/rename", 403, "Access denied"), f)
    ELSE IF ~FsExists(f, fullOldPath) THEN Returned(HttpError("/api/files/rename", 404, "File not found"), f)
    ELSE IF r.err # "" THEN Thrown(r.err, r.fs)
    ELSE Returned(HttpOk("/api/files/rename", Undefined), r.fs)

\* catch (error) { res.status(500).json({ error: error.message }) }
HttpHandler(route, body) ==
    IF body.threw THEN [res |-> HttpError(route, 500, body.msg), fs |-> body.fs]
    ELSE [res |-> body.res, fs |-> body.fs]

(***************************************************************************)
(* Regular expressions, as far as the blocked patterns use them.  A        *)
(* pattern is a sequence of atoms; MatchSeq gives every position at which  *)
(* a match that starts at one of the positions P can end, so test() holds  *)
(* when some start position has an end.                                    *)
(***************************************************************************)
Lit(x)     == [a |-> "lit", s |-> x, set |-> {}, alts |-> <<>>]
Ws1        == [a |-> "ws+", s |-> "", set |-> {}, alts |-> <<>>]     \* \s+
Ws0        == [a |-> "ws*", s |-> "", set |-> {}, alts |-> <<>>]     \* \s*
DotStar    == [a |-> ".*", s |-> "", set |-> {}, alts |-> <<>>]      \* .*
OneOf(cs)  == [a |-> "class", s |-> "", set |-> cs, alts |-> <<>>]   \* [...]
Alt(bs)    == [a |-> "alt", s |-> "", set |-> {}, alts |-> bs]       \* (x|y|z)
Bol        == [a |-> "bol", s |-> "", set |-> {}, alts |-> <<>>]     \* ^

WhiteSpace     == {" ", "\t", "\n", "\r", "\f"}
LineTerminator == {"\n", "\r"}

UpperCase == "ABCDEFGHIJKLMNOPQRSTUVWXYZ"
LowerCase == "abcdefghijklmnopqrstuvwxyz"

LowerMap == [c \in {Char(UpperCase, i) : i \in 1..Len(UpperCase)} |->
                Char(LowerCase, CHOOSE i \in 1..Len(UpperCase) : Char(UpperCase, i) = c)]

LowerChar(c) == IF c \in DOMAIN LowerMap THEN LowerMap[c] ELSE c

RECURSIVE LowerString(_)
LowerString(s) == IF s = "" THEN "" ELSE LowerChar(Head(s)) \o LowerString(Tail(s))

\* Every j >= i such that all of s[i..j-1] lies in cs (a greedy or lazy run
\* of the class may stop at any of them).
RunEnds(s, i, cs, excluded) ==
    {j \in i..(Len(s) + 1) :
        \A k \in i..(j - 1) : IF excluded THEN Char(s, k) \notin cs ELSE Char(s, k) \in cs}

RECURSIVE MatchSeq(_, _, _)
MatchSeq(rx, s, P) ==
    IF rx = <<>> \/ P = {} THEN P
    ELSE LET h == Head(rx)
             Q == CASE h.a = "lit"   -> {i + Len(h.s) : i \in {j \in P : j + Len(h.s) - 1 <= Len(s) /\ SubSeq(s, j, j + Len(h.s) - 1) = h.s}}
                    [] h.a = "ws+"   -> UNION {RunEnds(s, i, WhiteSpace, FALSE) \ {i} : i \in P}
                    [] h.a = "ws*"   -> UNION {RunEnds(s, i, WhiteSpace, FALSE) : i \in P}
                    [] h.a = ".*"    -> UNION {RunEnds(s, i, LineTerminator, TRUE) : i \in P}
                    [] h.a = "class" -> {i + 1 : i \in {j \in P : j <= Len(s) /\ Char(s, j) \in h.set}}
                    [] h.a = "alt"   -> UNION {MatchSeq(h.alts[b], s, P) : b \in 1..Len(h.alts)}
                    [] h.a = "bol"   -> P \cap {1}
         IN  MatchSeq(Tail(rx), s, Q)

\* RegExp.prototype.test for a pattern without the g or y flag: no lastIndex
\* is read or written, every call searches from the start of the string.
RegexTest(rx, s) == MatchSeq(rx, s, 1..(Len(s) + 1)) # {}

\* ToString of a value handed to test(): the string itself, or its text.
ToStringJS(v) ==
    CASE v.t = "string"    -> v.s
      [] v.t = "undefined" -> "undefined"
      [] v.t = "null"      -> "null"
      [] v.t = "object"    -> "[object Object]"
      [] v.t = "array"     -> ""
      [] OTHER             -> v.s

(***************************************************************************)
(* The two command policies.  Patterns with the i flag are written in      *)
(* lower case and tested against the lower-cased command.                  *)
(***************************************************************************)
\* routes.ts 568-575 (run_command)
AgentBlockedPatterns == <<
    [i |-> TRUE, rx |-> <<Lit("rm"), Ws1,
                          Alt(<< <<Lit("-rf")>>,
                                 <<Lit("--recursive"), DotStar, Lit("--force")>>,
                                 <<Lit("--force"), DotStar, Lit("--recursive")>> >>),
                          Ws1, OneOf({"/", "~"})>>],
    [i |-> TRUE, rx |-> <<Lit("sudo"), Ws1, Lit("rm")>>],
    [i |-> TRUE, rx |-> <<Lit("mkfs")>>],
    [i |-> TRUE, rx |-> <<Lit("dd"), Ws1, Lit("if="), DotStar, Lit("of=/dev")>>],
    [i |-> TRUE, rx |-> <<Lit(":()"), Ws0, Lit("{"), Ws0, Lit(":|:"), Ws0, Lit("&"), Ws0,
                          Lit("}"), Ws0, Lit(";")>>],
    [i |-> TRUE, rx |-> <<Lit(">"), Ws0, Lit("/dev/"),
                          Alt(<< <<Lit("sda")>>, <<Lit("hda")>>, <<Lit("null")>> >>)>>] >>

\* routes.ts 360-366 (/api/terminal/exec)
TerminalBlockedPatterns == <<
    [i |-> FALSE, rx |-> <<Bol, Alt(<< <<Lit("apt")>>, <<Lit("apt-get")>>, <<Lit("brew")>>,
                                       <<Lit("yum")>>, <<Lit("dnf")>>, <<Lit("pacman")>>,
                                       <<Lit("apk")>> >>),
                           OneOf(WhiteSpace)>>],
    [i |-> TRUE, rx |-> <<Lit("rm"), Ws1,
                          Alt(<< <<Lit("-rf")>>,
                                 <<Lit("--recursive"), DotStar, Lit("--force")>> >>),
                          Ws1, OneOf({"/", "~"})>>],
    [i |-> TRUE, rx |-> <<Lit("sudo"), Ws1, Lit("rm")>>],
    [i |-> TRUE, rx |-> <<Lit("mkfs")>>],
    [i |-> TRUE, rx |-> <<Lit("dd"), Ws1, Lit("if="), DotStar, Lit("of=/dev")>>] >>

\* for (const pattern of blockedPatterns) if (pattern.test(command)) ...
MatchesAny(patterns, command) ==
    LET s     == ToStringJS(command)
        lower == LowerString(s)
    IN  \E k \in 1..Len(patterns) :
            RegexTest(patterns[k].rx, IF patterns[k].i THEN lower ELSE s)

AgentBlocked(command) == MatchesAny(AgentBlockedPatterns, command)

\* The terminal policy with the package manager pattern alone.
TerminalBlocked_PackageManagersOnly(command) ==
    RegexTest(TerminalBlockedPatterns[1].rx, ToStringJS(command))

TerminalBlocked(command) == MatchesAny(TerminalBlockedPatterns, command)

(***************************************************************************)
(* child_process.exec through util.promisify, as the one-shot runner uses  *)
(* it.  A run is what the child did: its output, how it ended (exit code   *)
(* or signal) and whether exec's timer had fired and sent the kill signal. *)
(* The promise settles when the child closes: it resolves when no error    *)
(* was raised and the child ended with code 0 and no signal, and rejects   *)
(* with "Command failed" otherwise.                                        *)
(***************************************************************************)
AgentTimeoutMs    == 60000
TerminalTimeoutMs == 30000
SearchTimeoutMs   == 10000

RunEnded(out, err, code, signal, timerFired) ==
    [out |-> out, err |-> err, code |-> code, signal |-> signal, killed |-> timerFired]

\* The settled promise: ok with { stdout, stderr }, or the error object.
ExecResolved(out, err) ==
    [ok |-> TRUE, stdout |-> Str(out), stderr |-> Str(err), message |-> Undefined,
     code |-> Undefined, killed |-> FALSE, signal |-> Undefined]

ExecRejected(message, out, err, code, killed, signal) ==
    [ok |-> FALSE, stdout |-> out, stderr |-> err, message |-> Str(message),
     code |-> code, killed |-> killed, signal |-> signal]

\* exithandler(code, signal) of execFile.
ExecSettle(cmd, run) ==
    IF run.code = Num("0") /\ run.signal = Null
    THEN ExecResolved(run.out, run.err)
    ELSE ExecRejected("Command failed: " \o cmd \o "\n" \o run.err,
                      Str(run.out), Str(run.err), run.code, run.killed, run.signal)

\* The child could not be started (the working directory is missing).
ExecSpawnError ==
    ExecRejected("spawn /bin/bash ENOENT", Str(""), Str(""), Str("ENOENT"), FALSE, Null)

\* exec validates its arguments before it starts anything.
ExecArgError(message) ==
    ExecRejected(message, Undefined, Undefined, Str("ERR_INVALID_ARG_TYPE"), FALSE, Undefined)

CommandTypeError == "The \"command\" argument must be of type string"

\* The value as it is, not sliced.
SliceVal_Whole(v, n) ==
    IF v.t \in {"undefined", "null"} THEN Undefined ELSE Str(v.s)

\* value?.slice(0, n)
SliceVal(v, n) ==
    IF v.t \in {"undefined", "null"} THEN Undefined
    ELSE Str(SubSeq(v.s, 1, IF Len(v.s) < n THEN Len(v.s) ELSE n))

(***************************************************************************)
(* The environment of a child: the object literal passed as `env`, built   *)
(* by spreading process.env, then TERM, then what the handler adds.  An    *)
(* environment is a function from variable names to strings.               *)
(***************************************************************************)
\* process.env of the server.
ProcessEnv == "PATH" :> "/usr/bin:/bin" @@ "HOME" :> "/home/runner"

\* { ...base, ...over }: the properties of `over` replace those of `base`.
Spread(base, over) ==
    [k \in DOMAIN base \cup DOMAIN over |-> IF k \in DOMAIN over THEN over[k] ELSE base[k]]

\* The own properties an object value spreads; a value that is no object
\* spreads none.
SpreadValue(v) ==
    IF v.t = "object" THEN [k \in DOMAIN v.f |-> ToStringJS(v.f[k])] ELSE [k \in {} |-> ""]

\* run_command (590-594): { ...process.env, TERM, HOME: process.env.HOME || '/home/runner' }
RunCommandEnv ==
    Spread(Spread(ProcessEnv, "TERM" :> "xterm-256color"),
           "HOME" :> (IF "HOME" \in DOMAIN ProcessEnv /\ ProcessEnv["HOME"] # ""
                      THEN ProcessEnv["HOME"] ELSE "/home/runner"))

\* /api/terminal/exec (385-389): { ...process.env, TERM, ...(customEnv || {}) }
TerminalExecEnv(customEnv) ==
    Spread(Spread(ProcessEnv, "TERM" :> "xterm-256color"),
           SpreadValue(IF Truthy(customEnv) THEN customEnv ELSE ObjArgs(NoFields)))

(***************************************************************************)
(* run_command (routes.ts 564-605).                                        *)
(***************************************************************************)
StdoutCap      == 10000
StderrCap      == 5000
ErrorCap       == 1000
FailStdoutCap  == 5000
FailStderrCap  == 3000

\* run_command that goes to exec without consulting the policy.
RunCommandStart_NoPolicy(args) ==
    LET command == Field(args, "command")
        cwd     == Field(args, "cwd")
        none    == [kind |-> "blocked", msg |-> "", cmd |-> "", cwd |-> "", timeout |-> AgentTimeoutMs]
    IN
    IF ~CanDestructure(args) THEN [none EXCEPT !.kind = "outerthrow", !.msg = DestructureError]
    ELSE IF Truthy(cwd) /\ cwd.t # "string" THEN [none EXCEPT !.kind = "reject", !.msg = PathTypeError]
    ELSE IF command.t # "string" THEN [none EXCEPT !.kind = "reject", !.msg = CommandTypeError]
    ELSE [none EXCEPT !.kind = "spawn", !.cmd = command.s,
                      !.cwd = IF Truthy(cwd) THEN PathJoin(WORKSPACE_DIR, cwd.s) ELSE WORKSPACE_DIR]

\* The handler up to the call of exec: what it decides to do.
\*   outerthrow: an exception outside the inner try (caught by executeTool)
\*   blocked:    the policy matched, nothing is run
\*   reject:     the inner try failed before a child was started
\*   spawn:      exec starts /bin/bash -c cmd in cwd
RunCommandStart(args) ==
    LET command == Field(args, "command")
        cwd     == Field(args, "cwd")
        none    == [kind |-> "blocked", msg |-> "", cmd |-> "", cwd |-> "", timeout |-> AgentTimeoutMs]
    IN
    IF ~CanDestructure(args) THEN [none EXCEPT !.kind = "outerthrow", !.msg = DestructureError]
    ELSE IF AgentBlocked(command) THEN none
    ELSE IF Truthy(cwd) /\ cwd.t # "string" THEN [none EXCEPT !.kind = "reject", !.msg = PathTypeError]
    ELSE IF command.t # "string" THEN [none EXCEPT !.kind = "reject", !.msg = CommandTypeError]
    ELSE [none EXCEPT !.kind = "spawn", !.cmd = command.s,
                      !.cwd = IF Truthy(cwd) THEN PathJoin(WORKSPACE_DIR, cwd.s) ELSE WORKSPACE_DIR]

RunCommandBlockedResult == ToolFail("run_command", "Command blocked for safety")

\* The two returns after the await (596 and 598-603).
RunCommandResult(settled) ==
    IF settled.ok
    THEN [NoResp EXCEPT !.kind = "tool", !.tool = "run_command", !.success = TRUE,
                        !.result = Opaque("object"),
                        !.stdout = SliceVal(settled.stdout, StdoutCap),
                        !.stderr = SliceVal(settled.stderr, StderrCap)]
    ELSE [NoResp EXCEPT !.kind = "tool", !.tool = "run_command",
                        !.error = SliceVal(settled.message, ErrorCap),
                        !.result = Opaque("object"),
                        !.stdout = SliceVal(settled.stdout, FailStdoutCap),
                        !.stderr = SliceVal(settled.stderr, FailStderrCap)]

(***************************************************************************)
(* search_files (routes.ts 641-658): the grep command line is built from   *)
(* the arguments by string interpolation.                                  *)
(***************************************************************************)
SearchFilesCommand(args) ==
    LET pattern  == Field(args, "pattern")
        fileType == Field(args, "fileType")
    IN  IF Truthy(fileType)
        THEN "grep -rn \"" \o ToStringJS(pattern) \o "\" --include=\"" \o ToStringJS(fileType)
             \o "\" . 2>/dev/null | head -50"
        ELSE "grep -rn \"" \o ToStringJS(pattern) \o "\" . 2>/dev/null | head -50"

SearchFilesResult(settled) ==
    [NoResp EXCEPT !.kind = "tool", !.tool = "search_files", !.success = TRUE,
                   !.result = OrElse(settled.stdout, Str("No matches found"))]

(***************************************************************************)
(* /api/terminal/exec (routes.ts 350-405).                                 *)
(***************************************************************************)
TerminalBlockedResult ==
    [NoResp EXCEPT !.kind = "http", !.tool = "/api/terminal/exec", !.status = 200,
                   !.stdout = Str(""),
                   !.stderr = Str("This command is not available in this environment.\nUse pip for Python packages or npm for Node.js packages."),
                   !.code = Num("1")]

\* The handler up to the call of exec.
TerminalExecStart(command, cwd) ==
    LET none == [kind |-> "blocked", msg |-> "", cmd |-> "", cwd |-> "", timeout |-> TerminalTimeoutMs]
    IN
    IF ~Truthy(command) THEN [none EXCEPT !.kind = "badrequest"]
    ELSE IF Truthy(cwd) /\ cwd.t # "string" THEN [none EXCEPT !.kind = "reject", !.msg = PathTypeError]
    ELSE IF TerminalBlocked(command) THEN none
    ELSE IF command.t # "string" THEN [none EXCEPT !.kind = "reject", !.msg = CommandTypeError]
    ELSE [none EXCEPT !.kind = "spawn", !.cmd = command.s,
                      !.cwd = IF Truthy(cwd) THEN PathJoin(WORKSPACE_DIR, cwd.s) ELSE WORKSPACE_DIR]

\* The two res.json calls after the await (392-396 and 398-403).
TerminalExecResult(settled) ==
    IF settled.ok
    THEN [NoResp EXCEPT !.kind = "http", !.tool = "/api/terminal/exec", !.status = 200,
                        !.success = TRUE,
                        !.stdout = OrElse(settled.stdout, Str("")),
                        !.stderr = OrElse(settled.stderr, Str(""))]
    ELSE [NoResp EXCEPT !.kind = "http", !.tool = "/api/terminal/exec", !.status = 200,
                        !.stdout = OrElse(settled.stdout, Str("")),
                        !.stderr = OrElse(settled.stderr, settled.message),
                        !.code = settled.code]

(***************************************************************************)
(* executeTool (routes.ts 508-704): the switch inside the try, and the     *)
(* catch around it.  `run` is how the child runs, should the tool start    *)
(* one; the await on the exec promise is taken in the same step.           *)
(***************************************************************************)
RegisteredTools ==
    {"create_file", "edit_file", "read_file", "delete_file", "run_command", "list_files",
     "append_file", "search_files", "mkdir", "move_file", "copy_file"}

\* The promise exec returns for a child started in cwd.
ExecOutcome(f, cmd, cwd, run) ==
    IF ~FsIsDir(f, cwd) THEN ExecSpawnError ELSE ExecSettle(cmd, run)

Tool_run_command(f, args, run) ==
    LET st == RunCommandStart(args) IN
    CASE st.kind = "outerthrow" -> Thrown(st.msg, f)
      [] st.kind = "blocked"    -> Returned(RunCommandBlockedResult, f)
      [] st.kind = "reject"     -> Returned(RunCommandResult(ExecArgError(st.msg)), f)
      [] st.kind = "spawn"      -> Returned(RunCommandResult(ExecOutcome(f, st.cmd, st.cwd, run)), f)

Tool_search_files(f, args, run) ==
    IF ~CanDestructure(args) THEN Thrown(DestructureError, f)
    ELSE Returned(SearchFilesResult(ExecOutcome(f, SearchFilesCommand(args), WORKSPACE_DIR, run)), f)

ExecuteToolSwitch(f, tool, run) ==
    CASE tool.tool = "create_file"  -> Tool_create_file(f, tool.args)
      [] tool.tool = "edit_file"    -> Tool_edit_file(f, tool.args)
      [] tool.tool = "read_file"    -> Tool_read_file(f, tool.args)
      [] tool.tool = "delete_file"  -> Tool_delete_file(f, tool.args)
      [] tool.tool = "run_command"  -> Tool_run_command(f, tool.args, run)
      [] tool.tool = "list_files"   -> Tool_list_files(f, tool.args)
      [] tool.tool = "append_file"  -> Tool_append_file(f, tool.args)
      [] tool.tool = "search_files" -> Tool_search_files(f, tool.args, run)
      [] tool.tool = "mkdir"        -> Tool_mkdir(f, tool.args)
      [] tool.tool = "move_file"    -> Tool_move_file(f, tool.args)
      [] tool.tool = "copy_file"    -> Tool_copy_file(f, tool.args)
      [] OTHER -> Returned(ToolFail(tool.tool, "Unknown tool: " \o tool.tool), f)

\* An exception that leaves a function reaches its caller.
Escaped(message) == [NoResp EXCEPT !.kind = "exception", !.error = Str(message)]

\* What the caller of executeTool gets when nothing catches: the exception.
Uncaught(tool, b) ==
    [res |-> IF b.threw THEN Escaped(b.msg) ELSE b.res, fs |-> b.fs]

\* catch (error) { return { tool, success: false, error: error.message } }
Caught(tool, b) ==
    [res |-> IF b.threw THEN ToolFail(tool.tool, b.msg) ELSE b.res, fs |-> b.fs]

\* executeTool without its catch: what the switch throws reaches the caller.
ExecuteTool_NoCatch(f, tool, run) == Uncaught(tool, ExecuteToolSwitch(f, tool, run))

ExecuteTool(f, tool, run) == Caught(tool, ExecuteToolSwitch(f, tool, run))

\* The children executeTool starts for the invocation.
ExecuteToolSpawns(f, tool) ==
    LET st == RunCommandStart(tool.args) IN
    CASE tool.tool = "run_command" /\ st.kind = "spawn"
           -> {[via |-> "run_command", cmd |-> st.cmd, cwd |-> st.cwd, env |-> RunCommandEnv]}
      [] tool.tool = "search_files" /\ CanDestructure(tool.args)
           -> {[via |-> "search_files", cmd |-> SearchFilesCommand(tool.args),
                cwd |-> WORKSPACE_DIR, env |-> ProcessEnv]}
      [] OTHER -> {}

(***************************************************************************)
(* The requests the model draws from.                                      *)
(***************************************************************************)
Obj1(k, v)          == ObjArgs(k :> v)
Obj2(k1, v1, k2, v2) == ObjArgs(k1 :> v1 @@ k2 :> v2)

\* Relative paths as a client or the model writes them: inside the workspace,
\* the workspace itself, above it, beside it, and with a leading separator.
PathInputs ==
    {"a", "d", "n/b", ".", "..", "../workspace2/s", "d/../../x", "/a"}

SourceInputs == {"a", "d", ".", "zz", "../workspace2/s"}
TargetInputs == {"b", "..", "../workspace2/t"}

CommandInputs == {"ls -la", "rm -rf /", "sudo rm -rf /", "sleep 100"}

\* How a child may run: it ends with code 0, it fails, exec's timer kills it,
\* something else kills it.
RunInputs ==
    {RunEnded("out", "", Num("0"), Null, FALSE),
     RunEnded("out", "err", Num("1"), Null, FALSE),
     RunEnded("out", "", Null, Str("SIGTERM"), TRUE),
     RunEnded("out", "", Null, Str("SIGTERM"), FALSE)}

FileInvocations ==
    {[tool |-> t, args |-> Obj2("path", Str(p), "content", Str("hi"))] :
        t \in {"create_file", "edit_file", "append_file"}, p \in PathInputs}
    \cup {[tool |-> t, args |-> Obj1("path", Str(p))] :
        t \in {"read_file", "delete_file", "mkdir"}, p \in PathInputs}
    \cup {[tool |-> t, args |-> Obj2("from", Str(p), "to", Str(q))] :
        t \in {"move_file", "copy_file"}, p \in SourceInputs, q \in TargetInputs}
    \cup {[tool |-> "create_file", args |-> Obj1("path", Str("e"))],
          [tool |-> "list_files", args |-> ObjArgs(NoFields)]}

CommandInvocations ==
    {[tool |-> "run_command", args |-> Obj1("command", Str(c))] : c \in CommandInputs}
    \cup {[tool |-> "run_command", args |-> Obj2("command", Str("ls -la"), "cwd", Str(p))] :
        p \in {"d", ".."}}
    \cup {[tool |-> "search_files", args |-> Obj1("pattern", Str("TODO"))],
          [tool |-> "search_files", args |-> Obj2("pattern", Str("TODO"), "fileType", Str("*.js"))],
          [tool |-> "search_files", args |-> Obj1("pattern", Str("x\"; rm -rf / #"))]}

\* Decoded JSON that is no argument object: null, a number, a string, an
\* array, an object without the fields.
IllTypedArgs ==
    {ScalarArgs(Null), ScalarArgs(Num("5")), ScalarArgs(Str("x")), ScalarArgs(Opaque("array")),
     ObjArgs(NoFields)}

\* Argument objects with a field of the wrong type, or a field missing.
IllTypedInvocations ==
    {[tool |-> t, args |-> a] :
        t \in {"create_file", "edit_file", "read_file", "delete_file", "append_file", "mkdir"},
        a \in {Obj1("path", Num("5")), Obj1("path", Null),
               Obj2("path", Str("n"), "content", Num("5"))}}
    \cup {[tool |-> t, args |-> a] :
        t \in {"move_file", "copy_file"},
        a \in {Obj1("from", Str("a")), Obj2("from", Str("a"), "to", Num("5"))}}
    \cup {[tool |-> "run_command", args |-> a] :
        a \in {Obj1("command", Num("5")), Obj1("command", Opaque("object")),
               Obj2("command", Str("ls -la"), "cwd", Num("5"))}}
    \cup {[tool |-> "search_files", args |-> Obj1("pattern", Null)]}

UnknownToolNames == {"deploy", "format_disk"}

\* Any tool name with any decoded value, and one well-formed call of each kind.
DispatchInvocations ==
    {[tool |-> t, args |-> a] : t \in RegisteredTools \cup UnknownToolNames, a \in IllTypedArgs}
    \cup IllTypedInvocations
    \cup CommandInvocations
    \cup {i \in FileInvocations : \A k \in DOMAIN i.args.f : i.args.f[k] \in {Str("a"), Str("hi"), Str("b")}}
    \cup {[tool |-> "deploy", args |-> Obj1("path", Str("a"))]}

\* Whether executeTool runs a child for the tool.
StartsChild(tool) == tool.tool \in {"run_command", "search_files"}

RunsFor(tool) == IF StartsChild(tool) THEN RunInputs ELSE {RunEnded("", "", Num("0"), Null, FALSE)}

HttpPathInputs    == {Str(p) : p \in PathInputs} \cup {Str(""), Undefined, Num("5")}
HttpContentInputs == {Str("hi"), Undefined}
HttpFlagInputs    == {Undefined, Bool("true")}

(***************************************************************************)
(* The server with its workspace: the file tools and the /api/files        *)
(* handlers, one request at a time (each handler body is synchronous).     *)
(***************************************************************************)
\* The workspace exists at start (routes.ts 21-23) and holds a file and a
\* directory; beside it, in the server's directory, lies a directory the
\* workspace does not own.
InitialFs ==
    "/" :> Dir @@ "/app" :> Dir @@ WORKSPACE_DIR :> Dir
    @@ (WORKSPACE_DIR \o "/a") :> File("one")
    @@ (WORKSPACE_DIR \o "/d") :> Dir
    @@ (WORKSPACE_DIR \o "/d/f") :> File("two")
    @@ "/app/workspace2" :> Dir @@ "/app/workspace2/s" :> File("secret")

NoReq == [via |-> "none", name |-> "", args |-> ObjArgs(NoFields)]

\* No child is awaited, no turn is in progress, no session is open.
NoProc ==
    [state |-> "idle", via |-> "none", cmd |-> "", out |-> "", err |-> "", timerFired |-> FALSE,
     code |-> Null, signal |-> Null, descendants |-> 0]

NoParse == [text |-> "", tools |-> <<>>]

NoTurn ==
    [stage |-> "idle", mode |-> "", content |-> "", text |-> "", tools |-> <<>>,
     results |-> <<>>, status |-> 0, error |-> "", response |-> "", runs |-> <<>>,
     fs0 |-> InitialFs, again |-> NoParse, started |-> 0, followUp |-> "none"]

InitServer ==
    /\ fs = InitialFs
    /\ req = NoReq
    /\ resp = NoResp
    /\ spawned = {}
    /\ nops = 0

InitRunner ==
    /\ proc = NoProc
    /\ verdicts = <<>>

\* The terminal component before it is mounted: wsRef.current is null (conn
\* 0), no message read, no reconnect timer pending.
NoClient == [conn |-> 0, read |-> 0, timers |-> 0, gotExit |-> FALSE, opened |-> 0]

InitPty ==
    /\ sessions = <<>>
    /\ ptyProcesses = {}
    /\ client = NoClient

Init ==
    /\ InitServer
    /\ InitRunner
    /\ turn = NoTurn
    /\ InitPty

Serve(via, name, args, out) ==
    /\ fs' = out.fs
    /\ resp' = out.res
    /\ req' = [via |-> via, name |-> name, args |-> args]
    /\ nops' = nops + 1
    /\ UNCHANGED <<runnerVars, chatVars, ptyVars>>

\* One call of executeTool by the agent loop.
AgentExecuteTool(invocations) ==
    \E tool \in invocations :
        \E run \in RunsFor(tool) :
            /\ nops < MaxOps
            /\ Serve("agent", tool.tool, tool.args, ExecuteTool(fs, tool, run))
            /\ spawned' = spawned \cup ExecuteToolSpawns(fs, tool)

AgentFileTool == AgentExecuteTool(FileInvocations)

FilesRead ==
    \E p \in HttpPathInputs :
        /\ nops < MaxOps
        /\ Serve("http", "/api/files/read", Obj1("path", p),
                 HttpHandler("/api/files/read", Http_read(fs, p)))
        /\ UNCHANGED spawned

FilesWrite ==
    \E p \in HttpPathInputs, c \in HttpContentInputs, o \in HttpFlagInputs :
        /\ nops < MaxOps
        /\ (c = Undefined => o = Undefined)
        /\ Serve("http", "/api/files/write", Obj2("path", p, "content", c),
                 HttpHandler("/api/files/write", Http_write(fs, p, c, o)))
        /\ UNCHANGED spawned

FilesMkdir ==
    \E p \in HttpPathInputs, o \in HttpFlagInputs :
        /\ nops < MaxOps
        /\ Serve("http", "/api/files/mkdir", Obj1("path", p),
                 HttpHandler("/api/files/mkdir", Http_mkdir(fs, p, o)))
        /\ UNCHANGED spawned

FilesDelete ==
    \E p \in HttpPathInputs :
        /\ nops < MaxOps
        /\ Serve("http", "/api/files", Obj1("path", p),
                 HttpHandler("/api/files", Http_delete(fs, p)))
        /\ UNCHANGED spawned

FilesRename ==
    \E p \in SourceInputs \cup {""}, q \in TargetInputs \cup {""} :
        /\ nops < MaxOps
        /\ Serve("http", "/api/files/rename", Obj2("oldPath", Str(p), "newPath", Str(q)),
                 HttpHandler("/api/files/rename", Http_rename(fs, Str(p), Str(q))))
        /\ UNCHANGED spawned

Next ==
    \/ AgentFileTool
    \/ FilesRead
    \/ FilesWrite
    \/ FilesMkdir
    \/ FilesDelete
    \/ FilesRename

Spec == Init /\ [][Next]_vars

(***************************************************************************)
(* The dispatcher alone: executeTool called with any tool name and any     *)
(* decoded argument value.                                                 *)
(***************************************************************************)
Dispatch == AgentExecuteTool(DispatchInvocations)

NextDispatch == Dispatch

SpecDispatch == Init /\ [][NextDispatch]_vars

(***************************************************************************)
(* Claims about the path check and the dispatcher.                         *)
(***************************************************************************)
GuardedTools ==
    {"create_file", "edit_file", "read_file", "append_file", "delete_file", "mkdir",
     "move_file", "copy_file"}

GuardedRoutes ==
    {"/api/files/read", "/api/files/write", "/api/files/mkdir", "/api/files", "/api/files/rename"}

PathFields == {"path", "from", "to", "oldPath", "newPath"}

\* The path arguments of a request, when every one of them is a non-empty string.
WellFormedPaths(r) ==
    /\ r.name \in GuardedTools \cup GuardedRoutes
    /\ DOMAIN r.args.f \cap PathFields # {}
    /\ r.name \in {"move_file", "copy_file"} => {"from", "to"} \subseteq DOMAIN r.args.f
    /\ \A k \in DOMAIN r.args.f \cap PathFields : r.args.f[k].t = "string" /\ r.args.f[k].s # ""

RequestPaths(r) == {r.args.f[k].s : k \in DOMAIN r.args.f \cap PathFields}

\* The resolved path is the root, or begins with the root followed by the separator.
Confined(p) ==
    LET full == PathJoin(WORKSPACE_DIR, p)
    IN  full = WORKSPACE_DIR \/ StartsWith(full, WORKSPACE_DIR \o "/")

AccessDenied(r) == ~r.success /\ r.error = Str("Access denied")

\* C1: over every sequence of file tool invocations and HTTP file requests, a
\* request with a path that resolves outside the workspace root (not the root,
\* not below root + separator) is answered with Access denied and leaves the
\* file system unchanged.
C1_PathConfinement ==
    [][(nops' = nops + 1 /\ WellFormedPaths(req') /\ \E p \in RequestPaths(req') : ~Confined(p))
        => (AccessDenied(resp') /\ fs' = fs)]_vars

\* C30: the workspace root is never removed, renamed or moved by a file
\* operation: after any sequence of HTTP file requests and file tool
\* invocations, whatever their accepted paths, the root is a directory at its
\* startup location.
C30_RootStays == FsIsDir(fs, WORKSPACE_DIR)

\* path.isAbsolute of a request path.
IsAbsolute(p) == StartsWith(p, "/")

\* C24: a request of a guarded tool or HTTP file operation with an absolute
\* path argument is answered with Access denied and changes nothing: the path
\* is never rewritten to a place inside the workspace root and operated on.
C24_AbsolutePathDenied ==
    [][(nops' = nops + 1 /\ WellFormedPaths(req') /\ \E p \in RequestPaths(req') : IsAbsolute(p))
        => (AccessDenied(resp') /\ fs' = fs)]_vars

\* C4: executeTool is total: whatever the tool name and the decoded arguments,
\* the caller gets a ToolResult for that tool and no exception; for a name that
\* is no registered tool the result is a failure whose message holds the name.
C4_ExecuteToolTotal ==
    req.via = "agent" =>
        /\ resp.kind = "tool"
        /\ resp.tool = req.name
        /\ req.name \notin RegisteredTools =>
              /\ ~resp.success
              /\ resp.error.t = "string"
              /\ Includes(resp.error.s, req.name)

\* A call whose arguments decoded to null made the switch throw, and the
\* caller got a failed ToolResult.
C4_Witness ==
    /\ req.via = "agent"
    /\ req.name = "create_file"
    /\ req.args = ScalarArgs(Null)
    /\ resp = ToolFail("create_file", DestructureError)

(***************************************************************************)
(* The one-shot runner at work: a run_command invocation or a request to   *)
(* /api/terminal/exec decides by its policy, starts a child and awaits the *)
(* exec promise; the child writes, exits, is killed by exec's timer        *)
(* (SIGTERM, sent once, after the streams are destroyed) or by someone     *)
(* else.  One child is awaited at a time.  proc.descendants counts the     *)
(* processes the shell has started that are running.                       *)
(***************************************************************************)
MaxOut == 1

\* The whole handler of /api/terminal/exec, given how the child runs.
TerminalExec(f, command, cwd, run) ==
    LET st == TerminalExecStart(command, cwd) IN
    CASE st.kind = "badrequest" -> HttpError("/api/terminal/exec", 400, "Command is required")
      [] st.kind = "blocked"    -> TerminalBlockedResult
      [] st.kind = "reject"     -> TerminalExecResult(ExecArgError(st.msg))
      [] st.kind = "spawn"      -> TerminalExecResult(ExecOutcome(f, st.cmd, st.cwd, run))

\* A shell that ignores the signal exec's timer sends.
IgnoresTerm(cmd) == StartsWith(cmd, "trap '' TERM;")

RunnerCommands ==
    CommandInputs \cup {"trap '' TERM; sleep 100", "apt install vim", "echo hi > /dev/null"}

RunnerArgs ==
    {Obj1("command", Str(c)) : c \in RunnerCommands}
    \cup {Obj2("command", Str("ls -la"), "cwd", Str("nodir")),
          Obj1("command", Num("5")), ScalarArgs(Null)}

NoRun == RunEnded("", "", Num("0"), Null, FALSE)

Pending(r) == [NoResp EXCEPT !.kind = "pending", !.tool = r]

\* The decision a request shows: blocked, or let through to exec.
Verdict(policy, command, blocked) ==
    IF command.t = "string"
    THEN <<[policy |-> policy, cmd |-> command.s, blocked |-> blocked]>>
    ELSE <<>>

\* The request starts a child in an existing directory and awaits it.
Await(via, name, args, st) ==
    /\ proc' = [NoProc EXCEPT !.state = "running", !.via = via, !.cmd = st.cmd]
    /\ spawned' = spawned \cup {[via |-> via, cmd |-> st.cmd, cwd |-> st.cwd,
                                  env |-> IF via = "terminal"
                                          THEN TerminalExecEnv(Field(args, "env"))
                                          ELSE RunCommandEnv]}
    /\ resp' = Pending(name)

\* executeTool with a run_command invocation, up to the await.
RunCommandRequest(argset) ==
    \E args \in argset :
        \E st \in {RunCommandStart(args)} :
            /\ nops < MaxOps
            /\ proc.state \in {"idle", "closed"}
            /\ req' = [via |-> "agent", name |-> "run_command", args |-> args]
            /\ nops' = nops + 1
            /\ IF st.kind = "spawn" /\ FsIsDir(fs, st.cwd)
               THEN Await("run_command", "run_command", args, st)
               ELSE /\ \E tool \in {[tool |-> "run_command", args |-> args]} :
                          resp' = ExecuteTool(fs, tool, NoRun).res
                    /\ proc' = NoProc
                    /\ UNCHANGED spawned
            /\ verdicts' = verdicts \o Verdict("agent", Field(args, "command"),
                                               st.kind = "blocked")
            /\ UNCHANGED <<fs, chatVars, ptyVars>>

AgentRunCommand == RunCommandRequest(RunnerArgs)

\* POST /api/terminal/exec, up to the await.
TerminalRequest(argset) ==
    \E args \in argset :
        \E command \in {Field(args, "command")}, cwd \in {Field(args, "cwd")} :
            \E st \in {TerminalExecStart(command, cwd)} :
                /\ nops < MaxOps
                /\ proc.state \in {"idle", "closed"}
                /\ req' = [via |-> "http", name |-> "/api/terminal/exec", args |-> args]
                /\ nops' = nops + 1
                /\ IF st.kind = "spawn" /\ FsIsDir(fs, st.cwd)
                   THEN Await("terminal", "/api/terminal/exec", args, st)
                   ELSE /\ resp' = TerminalExec(fs, command, cwd, NoRun)
                        /\ proc' = NoProc
                        /\ UNCHANGED spawned
                /\ verdicts' = verdicts \o Verdict("terminal", command, st.kind = "blocked")
                /\ UNCHANGED <<fs, chatVars, ptyVars>>

TerminalExecRequest == TerminalRequest(RunnerArgs \ {ScalarArgs(Null)})

\* The child has ended and its streams are closed: exec's exithandler runs next.
\* Processes the shell started hold the pipes open, unless exec's kill() has
\* destroyed the streams.
Close(code, signal) ==
    /\ proc.timerFired \/ proc.descendants = 0
    /\ proc' = [proc EXCEPT !.state = "exited", !.code = code, !.signal = signal]
    /\ UNCHANGED <<fs, req, resp, spawned, nops, verdicts, chatVars, ptyVars>>

\* The child writes to stdout or stderr; exec collects it while the streams live.
ChildOutput ==
    /\ proc.state = "running"
    /\ ~proc.timerFired
    /\ \/ Len(proc.out) < MaxOut /\ proc' = [proc EXCEPT !.out = @ \o "o"]
       \/ Len(proc.err) < MaxOut /\ proc' = [proc EXCEPT !.err = @ \o "e"]
    /\ UNCHANGED <<fs, req, resp, spawned, nops, verdicts, chatVars, ptyVars>>

\* exec's timer: kill() destroys the streams and sends SIGTERM, once.
ExecTimeout ==
    /\ proc.state = "running"
    /\ ~proc.timerFired
    /\ proc' = [proc EXCEPT !.timerFired = TRUE]
    /\ UNCHANGED <<fs, req, resp, spawned, nops, verdicts, chatVars, ptyVars>>

\* The child exits by itself: before the timer, or after it when it ignores
\* SIGTERM; a shell waits for the processes it started.
ChildExit ==
    \E code \in {"0", "1"} :
        /\ proc.state = "running"
        /\ proc.descendants = 0
        /\ proc.timerFired => IgnoresTerm(proc.cmd)
        /\ Close(Num(code), Null)

\* The child dies of the timer's SIGTERM.
ChildTerminated ==
    /\ proc.state = "running"
    /\ proc.timerFired
    /\ ~IgnoresTerm(proc.cmd)
    /\ Close(Null, Str("SIGTERM"))

\* Someone else kills the child.
ChildKilled ==
    \E sig \in {"SIGTERM", "SIGKILL"} :
        /\ proc.state = "running"
        /\ ~proc.timerFired \/ sig = "SIGKILL"
        /\ Close(Null, Str(sig))

\* How the child of the awaited promise ran.
ProcRun(p) == RunEnded(p.out, p.err, p.code, p.signal, p.timerFired)

\* The awaited promise settles, and the handler returns its result.
ExecSettles ==
    \E run \in {ProcRun(proc)}, tool \in {[tool |-> req.name, args |-> req.args]} :
        /\ proc.state = "exited"
        /\ resp' = IF proc.via = "run_command"
                   THEN ExecuteTool(fs, tool, run).res
                   ELSE TerminalExec(fs, Field(tool.args, "command"), Field(tool.args, "cwd"), run)
        /\ proc' = [proc EXCEPT !.state = "closed"]
        /\ UNCHANGED <<fs, req, spawned, nops, verdicts, chatVars, ptyVars>>

\* The commands for which /bin/bash -c starts processes of its own: a single
\* simple command replaces the shell, a list or a background job is forked.
Forks(cmd) == Includes(cmd, "&") \/ Includes(cmd, ";")

MaxKids == 2

\* The shell starts a process.
ShellForks ==
    /\ proc.state = "running"
    /\ Forks(proc.cmd)
    /\ proc.descendants < MaxKids
    /\ proc' = [proc EXCEPT !.descendants = @ + 1]
    /\ UNCHANGED <<fs, req, resp, spawned, nops, verdicts, chatVars, ptyVars>>

\* A process the shell started ends, whether the shell is still there or not.
DescendantExits ==
    /\ proc.descendants > 0
    /\ proc' = [proc EXCEPT !.descendants = @ - 1]
    /\ UNCHANGED <<fs, req, resp, spawned, nops, verdicts, chatVars, ptyVars>>

NextCmd ==
    \/ AgentRunCommand
    \/ TerminalExecRequest
    \/ ChildOutput
    \/ ExecTimeout
    \/ ChildExit
    \/ ChildTerminated
    \/ ChildKilled
    \/ ExecSettles

SpecCmd == Init /\ [][NextCmd]_vars

(***************************************************************************)
(* The one-shot runner with commands that start processes of their own.    *)
(***************************************************************************)
GroupArgs ==
    {Obj1("command", Str(c)) : c \in {"sleep 100", "sleep 100 & wait", "trap '' TERM; sleep 100"}}

GroupRunCommand == RunCommandRequest(GroupArgs)

GroupTerminal == TerminalRequest(GroupArgs)

NextGroup ==
    \/ GroupRunCommand
    \/ GroupTerminal
    \/ ShellForks
    \/ DescendantExits
    \/ ChildOutput
    \/ ExecTimeout
    \/ ChildExit
    \/ ChildTerminated
    \/ ChildKilled
    \/ ExecSettles

SpecGroup == Init /\ [][NextGroup]_vars

\* The request got the result of a run that exec's timer had ended.
TimedOutResult ==
    /\ proc.state = "closed"
    /\ proc.timerFired
    /\ proc.signal = Str("SIGTERM")
    /\ resp.kind \in {"tool", "http"}

\* C29: when a one-shot command has timed out and its result was returned, no
\* process started by the command is running: neither the shell nor a process
\* the shell started.
C29_TimeoutEndsGroup ==
    TimedOutResult => proc.descendants = 0

(***************************************************************************)
(* Claims about the command policies and the one-shot runner.              *)
(***************************************************************************)
\* C2: a run_command invocation whose command matches a blocked pattern of the
\* agent policy gets success=false with an error that contains "blocked", and
\* no child is started for it: no child of run_command ever runs a command the
\* agent policy blocks.
C2_BlockedNeverSpawned ==
    /\ \A sp \in spawned : sp.via = "run_command" => ~AgentBlocked(Str(sp.cmd))
    /\ (/\ req.via = "agent"
        /\ req.name = "run_command"
        /\ CanDestructure(req.args)
        /\ AgentBlocked(Field(req.args, "command")))
       => /\ resp.kind = "tool"
          /\ ~resp.success
          /\ resp.error.t = "string"
          /\ Includes(resp.error.s, "blocked")
          /\ proc.state = "idle"

\* After a child was run for an earlier request, "sudo rm -rf /" was refused.
C2_Witness ==
    /\ req = [via |-> "agent", name |-> "run_command",
              args |-> Obj1("command", Str("sudo rm -rf /"))]
    /\ resp = RunCommandBlockedResult
    /\ spawned # {}
    /\ proc.state = "idle"

UntimedResponses(p) ==
    {IF p.via = "run_command"
     THEN RunCommandResult(ExecSettle(p.cmd, run))
     ELSE TerminalExecResult(ExecSettle(p.cmd, run)) :
        run \in {RunEnded(p.out, p.err, Num("1"), Null, FALSE),
                 RunEnded(p.out, p.err, Null, Str("SIGTERM"), FALSE)}}

\* C10: when the timer of a one-shot command has fired, the result the caller
\* gets has success=false, carries the output captured before the expiry, and
\* is marked as timed out: it differs from the result of a run that ended
\* without the timer.
C10_TimeoutMarkedFailure ==
    (proc.state = "closed" /\ proc.timerFired)
        => /\ ~resp.success
           /\ resp.stdout = Str(proc.out)
           /\ resp \notin UntimedResponses(proc)

(***************************************************************************)
(* The one-shot runner with a caller's working directory and environment   *)
(* and with children that write more than the handlers return: a child     *)
(* writes, at once, one character more than the largest cap to a stream.   *)
(* exec's maxBuffer (10 MB and 50 MB) is not reached.                      *)
(***************************************************************************)
RECURSIVE Repeat(_, _)
\* String.prototype.repeat
Repeat(c, n) ==
    IF n = 0 THEN ""
    ELSE LET h == Repeat(c, n \div 2)
         IN  IF n % 2 = 0 THEN h \o h ELSE h \o h \o c

Flood == Repeat("x", StdoutCap + 1)

ExecArgs ==
    {Obj1("command", Str("ls -la"))}
    \cup {Obj2("command", Str("ls -la"), "cwd", Str(c)) : c \in {"d", "..", "../.."}}
    \cup {Obj2("command", Str("ls -la"), "env", ObjArgs(e)) :
            e \in {"FOO" :> Str("1"), "PATH" :> Str("/tmp/evil")}}

ExecRunCommand == RunCommandRequest(ExecArgs)

ExecTerminal == TerminalRequest(ExecArgs)

\* The child begins with a large chunk on stdout or on stderr.
ChildFloods ==
    /\ proc.state = "running"
    /\ ~proc.timerFired
    /\ \/ proc.out = "" /\ proc' = [proc EXCEPT !.out = Flood]
       \/ proc.err = "" /\ proc' = [proc EXCEPT !.err = Flood]
    /\ UNCHANGED <<fs, req, resp, spawned, nops, verdicts, chatVars, ptyVars>>

NextExec ==
    \/ ExecRunCommand
    \/ ExecTerminal
    \/ ChildOutput
    \/ ChildFloods
    \/ ExecTimeout
    \/ ChildExit
    \/ ChildTerminated
    \/ ChildKilled
    \/ ExecSettles

SpecExec == Init /\ [][NextExec]_vars

(***************************************************************************)
(* Claims about the environment, the working directory and the size of the *)
(* results of one-shot commands.                                           *)
(***************************************************************************)
\* C13: whatever env mapping the caller of /api/terminal/exec supplies, the
\* child keeps the base variables: its PATH is the server's PATH.
C13_BasePathKept ==
    \A sp \in spawned :
        sp.via = "terminal" =>
            /\ "PATH" \in DOMAIN sp.env
            /\ sp.env["PATH"] = ProcessEnv["PATH"]

\* C14: no child of run_command or /api/terminal/exec is started with a
\* working directory outside the workspace root: a cwd that resolves outside
\* the root is rejected before anything is spawned.
C14_CwdInsideWorkspace ==
    \A sp \in spawned :
        sp.via \in {"run_command", "terminal"} =>
            \/ sp.cwd = WORKSPACE_DIR
            \/ StartsWith(sp.cwd, WORKSPACE_DIR \o "/")

\* value.length <= n, for a value that is a string
AtMost(v, n) == v.t = "string" => Len(v.s) <= n

\* C15: every ToolResult of run_command carries a stdout of at most 10,000
\* characters, a stderr of at most 5,000 characters and an error message of
\* at most 1,000 characters, whether the command succeeded, failed or timed
\* out and however much the child wrote.
C15_OutputCapped ==
    (resp.kind = "tool" /\ resp.tool = "run_command")
        => /\ AtMost(resp.stdout, 10000)
           /\ AtMost(resp.stderr, 5000)
           /\ AtMost(resp.error, 1000)

\* A command succeeded after writing more than 10,000 characters to stdout and
\* more than 5,000 to stderr, and its result holds 10,000 and 5,000 of them.
C15_Witness ==
    /\ req.name = "run_command"
    /\ proc.state = "closed"
    /\ Len(proc.out) > 10000
    /\ Len(proc.err) > 5000
    /\ resp.success
    /\ Len(resp.stdout.s) = 10000
    /\ Len(resp.stderr.s) = 5000

(***************************************************************************)
(* JSON.parse, for the JSON the model's texts hold: objects, arrays,       *)
(* strings with the escapes \" \\ \/ \n \t, numbers without exponent,      *)
(* true, false and null.  A parse step returns [ok, v, p]: whether a value *)
(* was read, the value, and the position after it.                         *)
(***************************************************************************)
JsonWs == {" ", "\t", "\n", "\r"}
Digits == {"0", "1", "2", "3", "4", "5", "6", "7", "8", "9"}

At(s, i) == IF i >= 1 /\ i <= Len(s) THEN SubSeq(s, i, i) ELSE ""

HasAt(s, i, lit) == i >= 1 /\ i + Len(lit) - 1 <= Len(s) /\ SubSeq(s, i, i + Len(lit) - 1) = lit

\* The first position at or after i whose character is not in cs.
RECURSIVE SkipChars(_, _, _)
SkipChars(s, i, cs) == IF At(s, i) \in cs THEN SkipChars(s, i + 1, cs) ELSE i

JsonFail == [ok |-> FALSE, v |-> ScalarArgs(Undefined), p |-> 0]
JsonRead(v, p) == [ok |-> TRUE, v |-> v, p |-> p]

\* A value as a field of an object holds it.
Flat(v) == [t |-> v.t, s |-> v.s]

\* The characters of a string literal from position i on, up to the closing quote.
RECURSIVE JsonStringBody(_, _, _)
JsonStringBody(s, i, acc) ==
    LET c == At(s, i)
        e == At(s, i + 1)
    IN  CASE c = "" \/ c \in {"\n", "\t", "\r"} -> JsonFail
          [] c = "\"" -> JsonRead(ScalarArgs(Str(acc)), i + 1)
          [] c = "\\" /\ e \in {"\"", "\\", "/"} -> JsonStringBody(s, i + 2, acc \o e)
          [] c = "\\" /\ e = "n" -> JsonStringBody(s, i + 2, acc \o "\n")
          [] c = "\\" /\ e = "t" -> JsonStringBody(s, i + 2, acc \o "\t")
          [] c = "\\" -> JsonFail
          [] OTHER -> JsonStringBody(s, i + 1, acc \o c)

\* -? (0 | [1-9][0-9]*) (. [0-9]+)?
JsonNumber(s, i) ==
    LET int  == IF At(s, i) = "-" THEN i + 1 ELSE i
        intE == IF At(s, int) = "0" THEN int + 1 ELSE SkipChars(s, int, Digits)
        frac == IF At(s, intE) = "." THEN SkipChars(s, intE + 1, Digits) ELSE intE
    IN  IF intE = int \/ (At(s, intE) = "." /\ frac = intE + 1) THEN JsonFail
        ELSE JsonRead(ScalarArgs(Num(SubSeq(s, i, frac - 1))), frac)

RECURSIVE JsonValue(_, _)
RECURSIVE JsonMembers(_, _, _)
RECURSIVE JsonElements(_, _)

\* "key" : value ( , "key" : value )* }
JsonMembers(s, i, fields) ==
    LET k == IF At(s, i) = "\"" THEN JsonStringBody(s, i + 1, "") ELSE JsonFail
        c == SkipChars(s, k.p, JsonWs)
        v == JsonValue(s, c + 1)
        e == SkipChars(s, v.p, JsonWs)
        f == [x \in (DOMAIN fields) \cup {k.v.s} |-> IF x = k.v.s THEN Flat(v.v) ELSE fields[x]]
    IN  IF ~k.ok \/ At(s, c) # ":" THEN JsonFail
        ELSE IF ~v.ok THEN JsonFail
        ELSE CASE At(s, e) = "}" -> JsonRead(ObjArgs(f), e + 1)
               [] At(s, e) = "," -> JsonMembers(s, SkipChars(s, e + 1, JsonWs), f)
               [] OTHER -> JsonFail

\* value ( , value )* ]
JsonElements(s, i) ==
    LET v == JsonValue(s, i)
        e == SkipChars(s, v.p, JsonWs)
    IN  IF ~v.ok THEN JsonFail
        ELSE CASE At(s, e) = "]" -> JsonRead(ScalarArgs(Opaque("array")), e + 1)
               [] At(s, e) = "," -> JsonElements(s, e + 1)
               [] OTHER -> JsonFail

\* ws value
JsonValue(s, i) ==
    LET b == SkipChars(s, i, JsonWs)
        c == At(s, b)
        n == SkipChars(s, b + 1, JsonWs)
    IN  CASE c = "{" -> IF At(s, n) = "}" THEN JsonRead(ObjArgs(NoFields), n + 1)
                        ELSE JsonMembers(s, n, NoFields)
          [] c = "[" -> IF At(s, n) = "]" THEN JsonRead(ScalarArgs(Opaque("array")), n + 1)
                        ELSE JsonElements(s, b + 1)
          [] c = "\"" -> JsonStringBody(s, b + 1, "")
          [] c = "-" \/ c \in Digits -> JsonNumber(s, b)
          [] HasAt(s, b, "true")  -> JsonRead(ScalarArgs(Bool("true")), b + 4)
          [] HasAt(s, b, "false") -> JsonRead(ScalarArgs(Bool("false")), b + 5)
          [] HasAt(s, b, "null")  -> JsonRead(ScalarArgs(Null), b + 4)
          [] OTHER -> JsonFail

\* JSON.parse(text): the value, when the whole text is one value.
JsonParse(text) ==
    LET v == JsonValue(text, 1)
    IN  IF v.ok /\ SkipChars(text, v.p, JsonWs) = Len(text) + 1 THEN v ELSE JsonFail

\* String.prototype.trim()
RECURSIVE TrimEnd(_)
TrimEnd(s) ==
    IF s # "" /\ At(s, Len(s)) \in WhiteSpace THEN TrimEnd(SubSeq(s, 1, Len(s) - 1)) ELSE s

Trim(s) ==
    LET b == SkipChars(s, 1, WhiteSpace)
    IN  TrimEnd(SubSeq(s, b, Len(s)))

(***************************************************************************)
(* parseToolCalls (routes.ts 707-728).  toolRegex is                       *)
(*   /<tool\s+name="([^"]+)">([\s\S]*?)<\/tool>/g                          *)
(* At a start position the match is determined: the white space run is     *)
(* followed by name=", the name runs to the next quote (it holds no quote  *)
(* and must be followed by ">), and the lazy body ends at the first        *)
(* </tool> after it.                                                       *)
(***************************************************************************)
NoMatch == [ok |-> FALSE, start |-> 0, end |-> 0, name |-> "", body |-> ""]

\* The match of toolRegex that starts at position i, if there is one.
ToolRegexAt(s, i) ==
    LET ws    == SkipChars(s, i + 5, WhiteSpace)
        name  == ws + 6
        quote == IndexOfFrom(s, "\"", name)
        body  == quote + 2
        close == IndexOfFrom(s, "</tool>", body)
    IN  IF /\ HasAt(s, i, "<tool")
           /\ ws > i + 5
           /\ HasAt(s, ws, "name=\"")
           /\ quote > name
           /\ HasAt(s, quote, "\">")
           /\ close > 0
        THEN [ok |-> TRUE, start |-> i, end |-> close + 6,
              name |-> SubSeq(s, name, quote - 1), body |-> SubSeq(s, body, close - 1)]
        ELSE NoMatch

\* toolRegex.exec(content) with lastIndex = from - 1: the leftmost match at or after from.
RECURSIVE ToolRegexExec(_, _)
ToolRegexExec(s, from) ==
    LET i == IndexOfFrom(s, "<tool", from)
        m == ToolRegexAt(s, i)
    IN  IF i = 0 THEN NoMatch
        ELSE IF m.ok THEN m
        ELSE ToolRegexExec(s, i + 1)

\* text.replace(pattern, "") with a string pattern: the first occurrence goes.
ReplaceFirst(text, pattern) ==
    LET i == IndexOfFrom(text, pattern, 1)
    IN  IF i = 0 THEN text
        ELSE SubSeq(text, 1, i - 1) \o SubSeq(text, i + Len(pattern), Len(text))

\* The while loop: exec on content, JSON.parse of the trimmed body, push and
\* replace on success, nothing on failure; at the end the text is trimmed.
RECURSIVE ParseLoop_StopsAtFailure(_, _, _, _)
ParseLoop_StopsAtFailure(content, from, text, tools) ==
    LET m == ToolRegexExec(content, from)
        j == JsonParse(Trim(m.body))
    IN  IF ~m.ok \/ ~j.ok THEN [text |-> Trim(text), tools |-> tools]
        ELSE ParseLoop_StopsAtFailure(content, m.end + 1,
                       ReplaceFirst(text, SubSeq(content, m.start, m.end)),
                       Append(tools, [tool |-> m.name, args |-> j.v]))

RECURSIVE ParseLoop(_, _, _, _)
ParseLoop(content, from, text, tools) ==
    LET m == ToolRegexExec(content, from)
        j == JsonParse(Trim(m.body))
    IN  IF ~m.ok THEN [text |-> Trim(text), tools |-> tools]
        ELSE IF j.ok
        THEN ParseLoop(content, m.end + 1,
                       ReplaceFirst(text, SubSeq(content, m.start, m.end)),
                       Append(tools, [tool |-> m.name, args |-> j.v]))
        ELSE ParseLoop(content, m.end + 1, text, tools)

ParseToolCalls(content) == ParseLoop(content, 1, content, <<>>)

(***************************************************************************)
(* The parser alone, on texts put together from pieces of tool blocks.     *)
(***************************************************************************)
MaxFrags == 4

Fragments ==
    {"x", " ", "{}", "<tool name=\"a\">", "</tool>", "<tool name=\"a\">{}</tool>",
     "<tool ", "name=\"b\">{}</tool>"}

RECURSIVE TextsUpTo(_)
TextsUpTo(n) ==
    IF n = 0 THEN {""}
    ELSE LET shorter == TextsUpTo(n - 1)
         IN  shorter \cup {t \o f : t \in shorter, f \in Fragments}

InitParse ==
    /\ InitServer
    /\ InitRunner
    /\ InitPty
    /\ \E t \in TextsUpTo(MaxFrags) : turn = [NoTurn EXCEPT !.stage = "text", !.content = t]

\* parseToolCalls(aiContent)
Parse ==
    /\ turn.stage = "text"
    /\ \E r \in {ParseToolCalls(turn.content)} :
          turn' = [turn EXCEPT !.stage = "parsed", !.text = r.text, !.tools = r.tools]
    /\ UNCHANGED <<fs, req, resp, spawned, nops, runnerVars, ptyVars>>

\* parseToolCalls applied to the display text of the first pass.
ParseAgain ==
    /\ turn.stage = "parsed"
    /\ turn' = [turn EXCEPT !.stage = "parsed twice", !.again = ParseToolCalls(turn.text)]
    /\ UNCHANGED <<fs, req, resp, spawned, nops, runnerVars, ptyVars>>

NextParse ==
    \/ Parse
    \/ ParseAgain

SpecParse == InitParse /\ [][NextParse]_vars

(***************************************************************************)
(* Claims about the parser.                                                *)
(***************************************************************************)
\* C6: parsing the display text of a parse yields no invocation: no well-formed
\* tool block is left in the display text after one pass.
C6_ParseIdempotent ==
    turn.stage = "parsed twice" => turn.again.tools = <<>>

\* The text from position `from` on, without the span of every block that
\* toolRegex finds and JSON.parse decodes; every other character stays.
RECURSIVE WithoutDecodedSpans(_, _)
WithoutDecodedSpans(content, from) ==
    LET m == ToolRegexExec(content, from)
    IN  IF ~m.ok THEN SubSeq(content, from, Len(content))
        ELSE SubSeq(content, from, m.start - 1)
             \o (IF JsonParse(Trim(m.body)).ok THEN "" ELSE SubSeq(content, m.start, m.end))
             \o WithoutDecodedSpans(content, m.end + 1)

\* C7: the display text is the input with exactly the span of each decoded
\* block removed (and the ends trimmed): a block whose body fails to decode
\* stays literally, and of a decoded block its own span is the one removed.
C7_DisplayTextKeepsAllButDecodedSpans ==
    turn.stage \in {"parsed", "parsed twice"}
        => turn.text = Trim(WithoutDecodedSpans(turn.content, 1))

(***************************************************************************)
(* The agent creating files: executeTool on create_file invocations, among *)
(* them the one decoded from the text of the model's reply.                *)
(***************************************************************************)
CreateFileExample ==
    "Creating file.<tool name=\"create_file\">{\"path\":\"x.txt\",\"content\":\"hi\"}</tool>"

\* The invocations parseToolCalls decodes from a text.
DecodedTools(text) ==
    LET tools == ParseToolCalls(text).tools IN {tools[i] : i \in DOMAIN tools}

\* Paths below a regular file, with a trailing separator, into an existing
\* directory, and that of an existing directory.
CreatePathInputs == {"a/c", "n/", "d/g", "d", "n/m/b"}

CreateInvocations ==
    DecodedTools(CreateFileExample)
    \cup {[tool |-> "create_file", args |-> Obj2("path", Str(p), "content", Str(c))] :
            p \in CreatePathInputs, c \in {"", "hi"}}
    \cup {[tool |-> "append_file", args |-> Obj2("path", Str("a/c"), "content", Str("hi"))]}

AgentCreateFile == AgentExecuteTool(CreateInvocations)

NextCreate ==
    \/ AgentCreateFile
    \/ AgentFileTool

SpecCreate == Init /\ [][NextCreate]_vars

(***************************************************************************)
(* Claims about create_file.                                               *)
(***************************************************************************)
\* A create_file invocation with a string path inside the workspace root and a
\* string content.
CreateCall(r) ==
    /\ r.via = "agent"
    /\ r.name = "create_file"
    /\ Field(r.args, "path").t = "string"
    /\ Field(r.args, "content").t = "string"
    /\ Confined(Field(r.args, "path").s)

CreateTarget(r) == PathJoin(WORKSPACE_DIR, Field(r.args, "path").s)

\* The file is there with the content of the invocation, below directories,
\* and the result reports success.
Created(r, f, res) ==
    /\ res.kind = "tool"
    /\ res.success
    /\ CreateTarget(r) \in DOMAIN f
    /\ f[CreateTarget(r)] = File(Field(r.args, "content").s)
    /\ \A x \in PathChain(PathDirname(CreateTarget(r))) : x \in DOMAIN f /\ f[x].kind = "dir"

\* A file can be put at the path: it names no directory, and no regular file
\* stands where a parent directory is needed.
CanHoldFile(f, full) ==
    /\ ~EndsWith(full, "/")
    /\ ~FsIsDir(f, full)
    /\ \A x \in PathChain(PathDirname(full)) : x \in DOMAIN f => f[x].kind = "dir"

\* The text of the example parses to the one create_file invocation, with the
\* display text "Creating file.".
CreateFileExampleParsed ==
    ParseToolCalls(CreateFileExample)
        = [text |-> "Creating file.",
           tools |-> <<[tool |-> "create_file",
                        args |-> Obj2("path", Str("x.txt"), "content", Str("hi"))]>>]

\* C11 as stated: for every create_file invocation whose path lies inside the
\* workspace root, with content c, after executeTool returns the file at
\* root/path exists with content exactly c (missing parent directories having
\* been created) and the result has success=true; the example text parses to
\* exactly that one invocation with display text "Creating file.".
C11_CreateFileAlwaysWrites ==
    /\ CreateFileExampleParsed
    /\ (nops > 0 /\ CreateCall(req)) => Created(req, fs, resp)

\* C11, amended: the same for every create_file invocation whose path lies
\* inside the workspace root where a file can be put (the path names no
\* existing directory and no regular file stands in place of a parent).
C11_CreateFileWrites ==
    /\ CreateFileExampleParsed
    /\ [][(nops' = nops + 1 /\ CreateCall(req') /\ CanHoldFile(fs, CreateTarget(req')))
            => Created(req', fs', resp')]_vars

\* The invocation decoded from the example text was executed after n/m/b had
\* been created with its two missing parents.
C11_Witness ==
    /\ req = [via |-> "agent", name |-> "create_file",
              args |-> Obj2("path", Str("x.txt"), "content", Str("hi"))]
    /\ resp = ToolOk("create_file", "File created: x.txt")
    /\ fs[WORKSPACE_DIR \o "/x.txt"] = File("hi")
    /\ (WORKSPACE_DIR \o "/n/m/b") \in DOMAIN fs
    /\ fs[WORKSPACE_DIR \o "/n/m"] = Dir

(***************************************************************************)
(* Claims about the file tools on a path that does not exist.              *)
(***************************************************************************)
NeedsTarget == {"edit_file", "read_file", "delete_file", "move_file", "copy_file"}
CreatesTarget == {"create_file", "append_file"}

\* The path the tool works on: the source of a move or a copy, else the path.
TargetOf(r) ==
    PathJoin(WORKSPACE_DIR,
             Field(r.args, IF r.name \in {"move_file", "copy_file"} THEN "from" ELSE "path").s)

\* An invocation of one of the tools with string paths, its target missing in f.
MissingTargetCall(r, f, tools) ==
    /\ r.via = "agent"
    /\ r.name \in tools
    /\ WellFormedPaths(r)
    /\ r.name \in CreatesTarget => Field(r.args, "content").t = "string"
    /\ ~FsExists(f, TargetOf(r))

NotFound(res) ==
    /\ res.kind = "tool"
    /\ ~res.success
    /\ res.error.t = "string"
    /\ Includes(res.error.s, "not found")

MaxPieces == 3

Block(name, json) == "<tool name=\"" \o name \o "\">" \o json \o "</tool>"

\* What the model writes: prose with a block that succeeds, and blocks that
\* succeed or fail in different ways, or do not decode.
ChatPieces ==
    {"Creating file." \o Block("create_file", "{\"path\":\"n\",\"content\":\"hi\"}"),
     Block("read_file", "{\"path\":\"n\"}"),
     Block("read_file", "{\"path\":\"../../etc/passwd\"}"),
     Block("run_command", "{\"command\":\"rm -rf /\"}"),
     Block("run_command", "{\"command\":\"ls -la\"}"),
     Block("create_file", "null"),
     Block("read_file", "{bad")}

RECURSIVE ChatTextsUpTo(_)
ChatTextsUpTo(n) ==
    IF n = 0 THEN {""}
    ELSE LET shorter == ChatTextsUpTo(n - 1)
         IN  shorter \cup {t \o f : t \in shorter, f \in ChatPieces}

\* How the child of a run_command of the turn ends: with code 0, or failing.
ChatRuns(tool) ==
    IF StartsChild(tool)
    THEN {RunEnded("out", "", Num("0"), Null, FALSE), RunEnded("out", "err", Num("1"), Null, FALSE)}
    ELSE {NoRun}

\* res.status(code).json({ error, response })
ChatError(t, code, error, response) ==
    [t EXCEPT !.stage = "responded", !.status = code, !.error = error, !.response = response]

\* res.json({ response, toolCalls, toolResults, rawResponse })
ChatAnswer(t, response) ==
    [t EXCEPT !.stage = "responded", !.status = 200, !.response = response]

\* toolResults.push(result)
PushResult_Front(results, result) == <<result>> \o results

PushResult(results, result) == Append(results, result)

\* The for...of loop over tools that ends at the first failed result.
LoopDone_AtFirstFailure(tools, results) ==
    \/ Len(results) = Len(tools)
    \/ results # <<>> /\ ~results[Len(results)].success

\* The for...of loop over tools has run out.
LoopDone(tools, results) == Len(results) = Len(tools)

\* The request arrives; the handler awaits the model unless it answers at once.
ChatRequest ==
    \E message \in {Undefined, Str("add a file")}, mode \in {"agent", "chat"}, ai \in BOOLEAN :
        /\ turn.stage = "idle"
        /\ nops' = nops + 1
        /\ turn' = IF ~Truthy(message)
                   THEN ChatError(NoTurn, 400, "Message is required", "")
                   ELSE IF ~ai
                   THEN ChatError(NoTurn, 500, "AI not configured",
                                  "AI service is not configured. Please add your Groq API key or OpenRouter API key in the Secrets tab.")
                   ELSE [NoTurn EXCEPT !.stage = "model", !.mode = mode, !.fs0 = fs]
        /\ UNCHANGED <<fs, req, resp, spawned, runnerVars, ptyVars>>

\* The model answers: chat mode returns the text; agent mode parses it and
\* enters the tool loop, or answers when there is nothing to execute.
ModelResponds ==
    \E content \in ChatTextsUpTo(MaxPieces) :
        \E aiContent \in {IF content = "" THEN "No response generated" ELSE content} :
            \E parsed \in {ParseToolCalls(aiContent)} :
                /\ turn.stage = "model"
                /\ turn' = IF turn.mode = "chat"
                           THEN ChatAnswer([turn EXCEPT !.content = aiContent], aiContent)
                           ELSE IF LoopDone(parsed.tools, <<>>)
                           THEN ChatAnswer([turn EXCEPT !.content = aiContent,
                                                        !.text = parsed.text], parsed.text)
                           ELSE [turn EXCEPT !.stage = "tools", !.content = aiContent,
                                             !.text = parsed.text, !.tools = parsed.tools]
                /\ UNCHANGED <<fs, req, resp, spawned, nops, runnerVars, ptyVars>>

\* The call of the model throws: the handler's catch answers 500.
ModelFails ==
    /\ turn.stage = "model"
    /\ turn' = ChatError(turn, 500, "Connection error.",
                         "Sorry, an unexpected error occurred. Please try again.")
    /\ UNCHANGED <<fs, req, resp, spawned, nops, runnerVars, ptyVars>>

\* One round of the loop: await executeTool(tool), push the result.  An
\* exception from executeTool would reach the handler's catch.
ExecuteNext ==
    /\ turn.stage = "tools"
    /\ \E tool \in {turn.tools[Len(turn.results) + 1]} :
        \E run \in ChatRuns(tool) :
            \E out \in {ExecuteTool(fs, tool, run)} :
                \E results \in {PushResult(turn.results, out.res)} :
                    /\ fs' = out.fs
                    /\ req' = [via |-> "agent", name |-> tool.tool, args |-> tool.args]
                    /\ resp' = out.res
                    /\ spawned' = spawned \cup ExecuteToolSpawns(fs, tool)
                    /\ turn' = IF out.res.kind = "exception"
                               THEN ChatError([turn EXCEPT !.runs = Append(@, run)], 500,
                                              out.res.error.s,
                                              "Sorry, an unexpected error occurred. Please try again.")
                               ELSE [turn EXCEPT !.results = results,
                                                 !.runs = Append(@, run),
                                                 !.started = @ + 1,
                                                 !.stage = IF LoopDone(turn.tools, results)
                                                           THEN "followup" ELSE "tools"]
                    /\ UNCHANGED <<nops, runnerVars, ptyVars>>

\* A follow-up call whose exception reaches the catch of the handler.
FollowUpFailed_Rethrown(t) ==
    ChatError([t EXCEPT !.followUp = "failed"], 500, "Connection error.",
              "Sorry, an unexpected error occurred. Please try again.")

\* catch (e) { }: the follow-up call threw, finalResponse is still text.
FollowUpFailed(t) == ChatAnswer([t EXCEPT !.followUp = "failed"], t.text)

\* The follow-up summary: its text is appended; when the call fails, or gives
\* no text, the display text is the answer.
FollowUp ==
    \E followUpText \in {"", "Done."}, fails \in BOOLEAN :
        /\ turn.stage = "followup"
        /\ fails => followUpText = ""
        /\ turn' = IF fails THEN FollowUpFailed(turn)
                   ELSE ChatAnswer([turn EXCEPT !.followUp = "ok"],
                          IF followUpText = "" THEN turn.text
                          ELSE IF turn.text # "" THEN turn.text \o "\n\n" \o followUpText
                          ELSE followUpText)
        /\ UNCHANGED <<fs, req, resp, spawned, nops, runnerVars, ptyVars>>

NextChat ==
    \/ ChatRequest
    \/ ModelResponds
    \/ ModelFails
    \/ ExecuteNext
    \/ FollowUp

SpecChat == Init /\ [][NextChat]_vars

(***************************************************************************)
(* Claims about the agent turn.                                            *)
(***************************************************************************)
\* The invocations of the decodable blocks of a text, by position of the block.
RECURSIVE DecodedInTextOrder(_, _)
DecodedInTextOrder(content, from) ==
    LET m == ToolRegexExec(content, from)
        j == JsonParse(Trim(m.body))
    IN  IF ~m.ok THEN <<>>
        ELSE (IF j.ok THEN <<[tool |-> m.name, args |-> j.v]>> ELSE <<>>)
             \o DecodedInTextOrder(content, m.end + 1)

\* The results of executing the invocations one after the other, in their
\* order, from the file system f on.
RECURSIVE ResultsInOrder(_, _, _)
ResultsInOrder(f, tools, runs) ==
    IF tools = <<>> \/ runs = <<>> THEN <<>>
    ELSE LET out == ExecuteTool(f, Head(tools), Head(runs))
         IN  <<out.res>> \o ResultsInOrder(out.fs, Tail(tools), Tail(runs))

\* The blocks of a text from position `from` on, left to right, each beginning
\* after the end of the one before.
RECURSIVE BlocksOf(_, _)
BlocksOf(content, from) ==
    LET m == ToolRegexExec(content, from)
    IN  IF ~m.ok THEN <<>> ELSE <<m>> \o BlocksOf(content, m.end + 1)

Decodes(m) == JsonParse(Trim(m.body)).ok

\* C27: parsing is fail-soft: a block whose body does not decode gives no
\* invocation and does not end the scan; the invocations are those of the
\* blocks of the text, scanned left to right without overlap, whose body
\* decodes, as many as there are such blocks and in their order.
C27_FailSoftParsing ==
    turn.stage \in {"parsed", "parsed twice"} =>
        LET blocks == BlocksOf(turn.content, 1)
            good   == {k \in DOMAIN blocks : Decodes(blocks[k])}
        IN  /\ Len(turn.tools) = Cardinality(good)
            /\ turn.tools = DecodedInTextOrder(turn.content, 1)
            /\ \A k \in good :
                  turn.tools[Cardinality({g \in good : g <= k})].tool = blocks[k].name

\* A block with the body x, which does not decode, is followed by a block
\* that decodes: the second is extracted, the first stays in the text.
C27_Witness ==
    /\ turn.stage = "parsed"
    /\ turn.content = "<tool name=\"a\">x</tool><tool name=\"a\">{}</tool>"
    /\ turn.tools = <<[tool |-> "a", args |-> ObjArgs(NoFields)]>>
    /\ turn.text = "<tool name=\"a\">x</tool>"

\* A turn of the agent mode that got the model's text.
AgentTurn == turn.mode = "agent" /\ turn.content # ""

\* C5: toolCalls lists the invocations in the order of their blocks in the
\* model text, and toolResults has the same order: toolResults[i] is the
\* result of executing toolCalls[i], the invocations being executed first to
\* last.
C5_ResultsInTextOrder ==
    (AgentTurn /\ turn.stage = "responded") =>
        /\ turn.tools = DecodedInTextOrder(turn.content, 1)
        /\ turn.results = ResultsInOrder(turn.fs0, turn.tools, turn.runs)
        /\ \A i \in 1..Len(turn.results) : turn.results[i].tool = turn.tools[i].tool

\* The text had the blocks create_file, run_command, read_file in that order;
\* the answer lists their results in that order, the read seeing the new file.
C5_Witness ==
    /\ turn.stage = "responded"
    /\ turn.status = 200
    /\ Len(turn.tools) = 3
    /\ Len(turn.results) = 3
    /\ <<turn.tools[1].tool, turn.tools[2].tool, turn.tools[3].tool>>
          = <<"create_file", "run_command", "read_file">>
    /\ turn.results[1].success
    /\ ~turn.results[2].success
    /\ turn.results[3] = ToolOk("read_file", "hi")

\* C9: every turn that enters the tool loop is answered with status 200 and one
\* ToolResult per parsed invocation, whichever of the invocations fail: the
\* loop goes on after a failed invocation, and a failure is no request error.
C9_OneResultPerInvocation ==
    (AgentTurn /\ turn.stage \in {"followup", "responded"})
        => /\ Len(turn.results) = Len(turn.tools)
           /\ turn.stage = "responded" => turn.status = 200

\* The first invocation threw inside executeTool, the second was refused, the
\* third succeeded, and the answer reports all three.
C9_Witness ==
    /\ turn.stage = "responded"
    /\ turn.status = 200
    /\ Len(turn.tools) = 3
    /\ Len(turn.results) = 3
    /\ turn.results[1] = ToolFail("create_file", DestructureError)
    /\ turn.results[2] = ToolFail("read_file", "Access denied")
    /\ turn.results[3].success

\* The errors the handler answers before it has a model text.
TopLevelErrors == {"Message is required", "AI not configured", "Connection error."}

ShellSeparators == {";", "|", "&", "\n"}

\* The characters that end a run of ordinary ones, outside and inside quotes.
ShellSpecials(quote) ==
    CASE quote = ""   -> {"\"", "'", "#"} \cup ShellSeparators
      [] quote = "\"" -> {"\"", "\\"}
      [] OTHER        -> {"'"}

NextSpecial(s, i, quote) ==
    LET js == {j \in i..Len(s) : At(s, j) \in ShellSpecials(quote)}
    IN  IF js = {} THEN Len(s) + 1 ELSE CHOOSE j \in js : \A k \in js : j <= k

\* The commands of s from position i on, the current one beginning at start.
RECURSIVE ShellSplit(_, _, _, _)
ShellSplit(s, i, quote, start) ==
    LET n == NextSpecial(s, i, quote)
        c == At(s, n)
    IN  IF n > Len(s) THEN <<SubSeq(s, start, Len(s))>>
        ELSE IF quote = "\"" /\ c = "\\" THEN ShellSplit(s, n + 2, quote, start)
        ELSE IF quote # "" THEN ShellSplit(s, n + 1, "", start)
        ELSE IF c \in {"\"", "'"} THEN ShellSplit(s, n + 1, c, start)
        ELSE IF c \in ShellSeparators
             THEN <<SubSeq(s, start, n - 1)>> \o ShellSplit(s, n + 1, "", n + 1)
        ELSE IF n = 1 \/ At(s, n - 1) \in WhiteSpace THEN <<SubSeq(s, start, n - 1)>>
        ELSE ShellSplit(s, n + 1, "", start)

ShellCommands(s) ==
    LET parts == ShellSplit(s, 1, "", 1)
    IN  {Trim(parts[k]) : k \in DOMAIN parts} \ {""}

\* The commands of the scan: the recursive grep and the head it is piped into.
ScanCommand(c) == StartsWith(c, "grep -rn \"") \/ c = "head -50"

\* C25: search_files runs nothing but the recursive grep of the workspace
\* piped into head -50, whatever its pattern and fileType: the shell it starts
\* runs no command taken from the arguments, so none that the agent policy
\* blocks for run_command.
C25_SearchFilesOnlyGreps ==
    \A sp \in spawned :
        sp.via = "search_files" => \A c \in ShellCommands(sp.cmd) : ScanCommand(c)

(***************************************************************************)
(* The tool loop of the agent turn with the children of run_command at     *)
(* work (routes.ts 899-906): executeTool is called for an invocation, a    *)
(* run_command that starts a child is awaited while the child writes,      *)
(* exits, times out or is killed, and the loop goes on when the call has   *)
(* returned.  A file tool runs to its end within the call.                 *)
(***************************************************************************)
TurnTexts ==
    {Block("create_file", "{\"path\":\"n\",\"content\":\"hi\"}")
        \o Block("run_command", "{\"command\":\"ls -la\"}")
        \o Block("read_file", "{\"path\":\"n\"}"),
     Block("run_command", "{\"command\":\"sleep 100\"}")
        \o Block("run_command", "{\"command\":\"rm -rf /\"}")
        \o Block("delete_file", "{\"path\":\"a\"}"),
     Block("run_command", "{\"command\":\"ls -la\",\"cwd\":\"d\"}")
        \o Block("run_command", "{\"command\":\"ls -la\"}"),
     Block("delete_file", "{\"path\":\"a\"}") \o Block("read_file", "{\"path\":\"a\"}")}

\* The handler has the model's text, parses it and enters the loop.
TurnBegins ==
    \E content \in TurnTexts :
        \E parsed \in {ParseToolCalls(content)} :
            /\ turn.stage = "idle"
            /\ nops' = nops + 1
            /\ turn' = [NoTurn EXCEPT !.stage = "tools", !.mode = "agent", !.content = content,
                                      !.text = parsed.text, !.tools = parsed.tools, !.fs0 = fs]
            /\ UNCHANGED <<fs, req, resp, spawned, runnerVars, ptyVars>>

\* A loop that calls executeTool for the next invocation without awaiting the
\* call before.
LoopMayStart_NoAwait(t) == t.started < Len(t.tools)

\* `await executeTool(tool)`: the next call is made when the one before has
\* returned its result.
LoopMayStart(t) == t.started < Len(t.tools) /\ t.started = Len(t.results)

\* The stage of the turn after a result was pushed.
AfterResult(t, results) == IF LoopDone(t.tools, results) THEN "followup" ELSE "tools"

\* The loop calls executeTool for the next invocation: a run_command that
\* starts a child is left awaiting it, any other call returns.
StartNext ==
    /\ turn.stage = "tools"
    /\ LoopMayStart(turn)
    /\ \E tool \in {turn.tools[turn.started + 1]} :
        \E st \in {RunCommandStart(tool.args)} :
            /\ req' = [via |-> "agent", name |-> tool.tool, args |-> tool.args]
            /\ IF tool.tool = "run_command" /\ st.kind = "spawn" /\ FsIsDir(fs, st.cwd)
               THEN /\ Await("run_command", "run_command", tool.args, st)
                    /\ turn' = [turn EXCEPT !.started = @ + 1]
                    /\ UNCHANGED fs
               ELSE \E out \in {ExecuteTool(fs, tool, NoRun)} :
                        /\ fs' = out.fs
                        /\ resp' = out.res
                        /\ proc' = proc
                        /\ spawned' = spawned
                        /\ turn' = [turn EXCEPT !.started = @ + 1,
                                                !.results = PushResult(@, out.res),
                                                !.runs = Append(@, NoRun),
                                                !.stage = AfterResult(turn, PushResult(turn.results, out.res))]
            /\ UNCHANGED <<nops, verdicts, ptyVars>>

\* The awaited call returns: the exec promise has settled.
ToolReturns ==
    /\ turn.stage = "tools"
    /\ proc.state = "exited"
    /\ \E tool \in {[tool |-> req.name, args |-> req.args]}, run \in {ProcRun(proc)} :
        \E out \in {ExecuteTool(fs, tool, run)} :
            /\ resp' = out.res
            /\ proc' = [proc EXCEPT !.state = "closed"]
            /\ turn' = [turn EXCEPT !.results = PushResult(@, out.res),
                                    !.runs = Append(@, run),
                                    !.stage = AfterResult(turn, PushResult(turn.results, out.res))]
            /\ UNCHANGED <<fs, req, spawned, nops, verdicts, ptyVars>>

NextTurn ==
    \/ TurnBegins
    \/ StartNext
    \/ ChildOutput
    \/ ExecTimeout
    \/ ChildExit
    \/ ChildTerminated
    \/ ChildKilled
    \/ ToolReturns
    \/ FollowUp

SpecTurn == Init /\ [][NextTurn]_vars

(***************************************************************************)
(* Claims about the order of execution within a turn.                      *)
(***************************************************************************)
\* A child of the one-shot runner is at work or its promise not yet settled.
InFlight == proc.state \in {"running", "exited"}

\* C23: within one agent turn the invocations run one after another in the
\* order of the text: a call of executeTool is made only when every earlier
\* call has returned its result and no child of an earlier run_command is
\* still awaited, so at most one invocation is executing at any time; and the
\* results are those of executing the invocations in order, each on the file
\* system the earlier ones left.
C23_OneAtATime ==
    /\ [](/\ turn.started - Len(turn.results) \in {0, 1}
          /\ InFlight => turn.started = Len(turn.results) + 1
          /\ (AgentTurn /\ turn.stage \in {"followup", "responded"})
                => /\ turn.started = Len(turn.tools)
                   /\ turn.results = ResultsInOrder(turn.fs0, turn.tools, turn.runs))
    /\ [][turn'.started = turn.started + 1
            => /\ turn.started = Len(turn.results)
               /\ ~InFlight
               /\ req'.name = turn.tools[turn.started + 1].tool]_vars

\* create_file, then a run_command whose child wrote and timed out, then
\* read_file: the read, started after the child had ended, sees the new file.
C23_Witness ==
    /\ turn.stage = "followup"
    /\ Len(turn.results) = 3
    /\ turn.results[1] = ToolOk("create_file", "File created: n")
    /\ turn.results[2].tool = "run_command"
    /\ turn.runs[2].killed
    /\ turn.runs[2].out # ""
    /\ turn.results[3] = ToolOk("read_file", "hi")
    /\ proc.state = "closed"

(***************************************************************************)
(* The pty sessions of /ws/terminal (routes.ts 1034-1106).  A connection   *)
(* spawns a shell on a pty and enters it in ptyProcesses; the handlers of  *)
(* the pty's data and exit events and of the socket's message, close and   *)
(* error events run one at a time, each to its end.  A session id is       *)
(* `pty-<time>-<random>`; the model numbers the sessions, so ids are       *)
(* distinct.  A session records what its handlers did: the messages sent,  *)
(* the kill() calls and those made after the exit callback had run, the    *)
(* ptyProcesses.delete calls that removed its entry, the write and resize  *)
(* calls and those made after the exit callback, and, in `trace`, the      *)
(* order of the effects of its exit, close and error handlers.             *)
(***************************************************************************)
MaxSessions == 2
MaxIo == 2

\* The exit code and signal number of a process that has not ended.
NoStatus == [exitCode |-> -1, signal |-> -1]

\* JSON.stringify({ type }) and JSON.stringify({ type: "exit", exitCode, signal })
Msg(type) == [type |-> type, exitCode |-> -1, signal |-> -1]
ExitMsg(status) == [type |-> "exit", exitCode |-> status.exitCode, signal |-> status.signal]

\* A connection handler that does not send the session message.
NewSession_Silent ==
    [ws |-> "open", pty |-> "running", status |-> NoStatus,
     kills |-> 0, lateKills |-> 0, removals |-> 0,
     emitted |-> 0, received |-> 0, pings |-> 0, applied |-> 0, lateApplied |-> 0,
     sent |-> <<>>, trace |-> <<>>]

\* wss.on("connection"): pty.spawn, ptyProcesses.set, ws.send of the session id.
NewSession ==
    [ws |-> "open", pty |-> "running", status |-> NoStatus,
     kills |-> 0, lateKills |-> 0, removals |-> 0,
     emitted |-> 0, received |-> 0, pings |-> 0, applied |-> 0, lateApplied |-> 0,
     sent |-> <<Msg("session")>>, trace |-> <<>>]

\* ws.send(...) under `if (ws.readyState === WebSocket.OPEN)`
SendIfOpen(s, msg) == IF s.ws = "open" THEN [s EXCEPT !.sent = Append(@, msg)] ELSE s

\* The exit message sent without looking at the socket's state.
SendExit_Unchecked(s) ==
    [s EXCEPT !.sent = Append(@, ExitMsg(s.status)), !.trace = Append(@, "exit sent")]

\* The exit message, sent when the socket is open.
SendExitIfOpen(s) ==
    IF s.ws = "open"
    THEN [SendIfOpen(s, ExitMsg(s.status)) EXCEPT !.trace = Append(@, "exit sent")]
    ELSE s

\* ptyProcess.kill()
Kill(s) ==
    [s EXCEPT !.kills = @ + 1,
              !.lateKills = @ + (IF s.pty = "exited" THEN 1 ELSE 0),
              !.trace = Append(@, "kill")]

\* ptyProcesses.delete(sessionId), called by the handler `by`
Delete(s, id, by) ==
    IF id \in ptyProcesses
    THEN [s EXCEPT !.removals = @ + 1, !.trace = Append(@, "deleted by " \o by)]
    ELSE s

\* ptyProcess.write(data) and ptyProcess.resize(cols, rows)
Apply(s) ==
    [s EXCEPT !.applied = @ + 1,
              !.lateApplied = @ + (IF s.pty = "exited" THEN 1 ELSE 0)]

\* The pty outputs and client messages a session has handled so far.
IoDone(s) == s.emitted + s.received

PtyStep(id, s) ==
    /\ sessions' = [sessions EXCEPT ![id] = s]
    /\ UNCHANGED <<fs, req, resp, spawned, nops, runnerVars, chatVars, client>>

\* The connection handler, for the next session id.
Accept ==
    /\ sessions' = Append(sessions, NewSession)
    /\ ptyProcesses' = ptyProcesses \cup {Len(sessions) + 1}
    /\ UNCHANGED <<fs, req, resp, spawned, nops, runnerVars, chatVars, client>>

\* A client connects while other sessions are alive or gone.
Connect ==
    /\ Len(sessions) < MaxSessions
    /\ Accept

\* The first client connects.
FirstConnect ==
    /\ sessions = <<>>
    /\ Accept

\* ptyProcess.onData: forward the output when the socket is open.
PtyData ==
    \E id \in DOMAIN sessions :
        /\ sessions[id].pty = "running"
        /\ IoDone(sessions[id]) < MaxIo
        /\ PtyStep(id, SendIfOpen([sessions[id] EXCEPT !.emitted = @ + 1], Msg("output")))
        /\ UNCHANGED ptyProcesses

\* The messages a client sends: input, a resize with and without rows, ping,
\* and text that is no JSON, delivered as a string or as a Buffer.
ClientMessages == {"input", "resize", "resize without rows", "ping", "raw string", "raw buffer"}

\* A message handler whose ping case also reaches the process.
OnMessage_PingWrites(s, kind) ==
    CASE kind \in {"input", "resize", "raw string"} -> Apply(s)
      [] kind = "ping" -> Apply([s EXCEPT !.pings = @ + 1, !.sent = Append(@, Msg("pong"))])
      [] OTHER -> s

\* The body of ws.on("message") for one message.
OnMessage(s, kind) ==
    CASE kind \in {"input", "resize", "raw string"} -> Apply(s)
      [] kind = "ping" -> [s EXCEPT !.pings = @ + 1, !.sent = Append(@, Msg("pong"))]
      [] OTHER -> s

\* ws.on("message"): messages arrive while the socket is open.
ClientMessage ==
    \E id \in DOMAIN sessions, kind \in ClientMessages :
        /\ sessions[id].ws = "open"
        /\ IoDone(sessions[id]) < MaxIo
        /\ PtyStep(id, OnMessage([sessions[id] EXCEPT !.received = @ + 1], kind))
        /\ UNCHANGED ptyProcesses

\* How the shell ends: by itself with an exit code, or of the SIGHUP of kill().
ExitStatuses(s) ==
    IF s.kills = 0
    THEN {[exitCode |-> 0, signal |-> 0], [exitCode |-> 1, signal |-> 0]}
    ELSE {[exitCode |-> 0, signal |-> 1]}

\* The shell ends; its exit callback has not run yet.
ProcessExits ==
    \E id \in DOMAIN sessions :
        \E status \in ExitStatuses(sessions[id]) :
            /\ sessions[id].pty = "running"
            /\ PtyStep(id, [sessions[id] EXCEPT !.pty = "ended", !.status = status])
            /\ UNCHANGED ptyProcesses

\* An exit callback that leaves the entry in the registry.
OnExit_KeepsEntry ==
    \E id \in DOMAIN sessions :
        /\ sessions[id].pty = "ended"
        /\ PtyStep(id, SendExitIfOpen([sessions[id] EXCEPT !.pty = "exited"]))
        /\ UNCHANGED ptyProcesses

\* ptyProcess.onExit: tell the client when the socket is open, delete the entry.
OnExit ==
    \E id \in DOMAIN sessions :
        /\ sessions[id].pty = "ended"
        /\ PtyStep(id, Delete(SendExitIfOpen([sessions[id] EXCEPT !.pty = "exited"]), id, "exit"))
        /\ ptyProcesses' = ptyProcesses \ {id}

\* ws.on("error"): kill and delete; the socket closes after an error.
WsError ==
    \E id \in DOMAIN sessions :
        /\ sessions[id].ws = "open"
        /\ PtyStep(id, Delete(Kill([sessions[id] EXCEPT !.ws = "errored"]), id, "error"))
        /\ ptyProcesses' = ptyProcesses \ {id}

\* A close handler that empties the registry.
WsClose_ClearsRegistry ==
    \E id \in DOMAIN sessions :
        /\ sessions[id].ws \in {"open", "errored"}
        /\ PtyStep(id, Delete(Kill([sessions[id] EXCEPT !.ws = "closed"]), id, "close"))
        /\ ptyProcesses' = {}

\* ws.on("close"): kill and delete.
WsClose ==
    \E id \in DOMAIN sessions :
        /\ sessions[id].ws \in {"open", "errored"}
        /\ PtyStep(id, Delete(Kill([sessions[id] EXCEPT !.ws = "closed"]), id, "close"))
        /\ ptyProcesses' = ptyProcesses \ {id}

\* Sessions side by side: connections, process exits, socket errors and closes.
NextPty ==
    \/ Connect
    \/ ProcessExits
    \/ OnExit
    \/ WsError
    \/ WsClose

SpecPty == Init /\ [][NextPty]_vars

\* One connection from its opening to its end, with the traffic in both
\* directions.
NextSession ==
    \/ FirstConnect
    \/ PtyData
    \/ ClientMessage
    \/ ProcessExits
    \/ OnExit
    \/ WsError
    \/ WsClose

SpecSession == Init /\ [][NextSession]_vars

(***************************************************************************)
(* Claims about the session teardown.                                      *)
(***************************************************************************)
\* C8: a session is torn down once, whichever of process exit and transport
\* close or error comes first: its registry entry is removed once, its process
\* is killed at most once, and no kill is attempted once the process has exited.
C8_TeardownOnce ==
    \A id \in DOMAIN sessions :
        /\ sessions[id].removals <= 1
        /\ sessions[id].kills <= 1
        /\ sessions[id].lateKills = 0

(***************************************************************************)
(* Claims about the messages of a connection.                              *)
(***************************************************************************)
\* The types of the messages sent on a connection, in order.
SentTypes(s) == [i \in DOMAIN s.sent |-> s.sent[i].type]

\* C12: on every connection the first message the server sends is the session
\* message: no output, exit or pong is sent before it, and it is sent exactly
\* once.
C12_SessionMessageFirst ==
    \A id \in DOMAIN sessions :
        /\ Len(sessions[id].sent) >= 1
        /\ \A i \in DOMAIN sessions[id].sent : (sessions[id].sent[i].type = "session") <=> (i = 1)

\* The connection carried output, a pong and the exit message after the
\* session message.
C12_Witness ==
    /\ Len(sessions) = 1
    /\ SentTypes(sessions[1]) = <<"session", "output", "pong", "exit">>

\* C17: no input or resize message is applied to a session's process once the
\* session has left Running: after the exit callback of the process has run,
\* a message arriving on the open socket causes no write and no resize.
C17_NoInputAfterExit ==
    \A id \in DOMAIN sessions : sessions[id].lateApplied = 0

\* C18: after the exit message nothing more is sent on the connection: exit is
\* the last message from the server.
C18_ExitIsLast ==
    \A id \in DOMAIN sessions :
        \A i \in DOMAIN sessions[id].sent :
            sessions[id].sent[i].type = "exit" => i = Len(sessions[id].sent)

\* The exit callback of session id runs in this step.
ExitCallback(id) == sessions[id].pty = "ended" /\ sessions'[id].pty = "exited"

\* C19: when the process of a Running session ends by itself while the socket
\* is open, the server sends one exit message with the exit code and signal of
\* the process, and sends it before it removes the registry entry; when the
\* socket has closed or errored, no exit message is sent: a connection carries
\* at most one exit message, and none after a kill.
C19_ExitReported ==
    /\ [][\A id \in DOMAIN sessions :
            ExitCallback(id) =>
                IF sessions[id].ws = "open"
                THEN /\ sessions'[id].sent = Append(sessions[id].sent, ExitMsg(sessions[id].status))
                     /\ sessions'[id].trace = sessions[id].trace \o <<"exit sent", "deleted by exit">>
                     /\ id \in ptyProcesses /\ id \notin ptyProcesses'
                ELSE sessions'[id].sent = sessions[id].sent]_vars
    /\ [](\A id \in DOMAIN sessions :
            /\ Cardinality({i \in DOMAIN sessions[id].sent : sessions[id].sent[i].type = "exit"}) <= 1
            /\ \A i, j \in DOMAIN sessions[id].trace :
                  (sessions[id].trace[i] = "kill" /\ sessions[id].trace[j] = "exit sent") => j < i)

\* The shell ended with code 1 while the socket was open: the client was told,
\* and the entry is gone.
C19_Witness ==
    /\ Len(sessions) = 1
    /\ sessions[1].ws = "open"
    /\ sessions[1].sent = <<Msg("session"), [type |-> "exit", exitCode |-> 1, signal |-> 0]>>
    /\ sessions[1].trace = <<"exit sent", "deleted by exit">>
    /\ ptyProcesses = {}

\* A ping is handled by session id in this step.
PingHandled(id) == sessions'[id].pings = sessions[id].pings + 1

\* C22: a ping is answered with exactly one pong on the same connection and
\* touches nothing else: handling it writes nothing to the process, does not
\* resize or kill it, and leaves the registry and the other sessions as they
\* were; a connection carries as many pongs as it received pings.
C22_PingOnlyPongs ==
    /\ [][\A id \in DOMAIN sessions :
            PingHandled(id) =>
                /\ sessions'[id] = [sessions[id] EXCEPT !.pings = @ + 1, !.received = @ + 1,
                                                        !.sent = Append(@, Msg("pong"))]
                /\ ptyProcesses' = ptyProcesses
                /\ \A other \in DOMAIN sessions \ {id} : sessions'[other] = sessions[other]]_vars
    /\ [](\A id \in DOMAIN sessions :
            Cardinality({i \in DOMAIN sessions[id].sent : sessions[id].sent[i].type = "pong"})
                = sessions[id].pings)

\* Two pings were answered on a connection whose shell runs, and nothing was
\* written to the shell.
C22_Witness ==
    /\ Len(sessions) = 1
    /\ sessions[1].pings = 2
    /\ SentTypes(sessions[1]) = <<"session", "pong", "pong">>
    /\ sessions[1].applied = 0
    /\ sessions[1].kills = 0
    /\ ptyProcesses = {1}

(***************************************************************************)
(* Claims about the sessions and the registry.                             *)
(***************************************************************************)
\* A session is Running from its creation until its exit callback has run or
\* its socket has errored or closed.
Running(s) == s.ws = "open" /\ s.pty # "exited"

\* The handlers that took the session out of the registry.
Removers(s) ==
    {s.trace[i] : i \in DOMAIN s.trace} \cap {"deleted by exit", "deleted by close", "deleted by error"}

\* C16: the registry holds a session's id exactly while the session is Running;
\* of the exit of the process and the close (or error) of the socket only the
\* first takes the session out of the registry, the other finds it gone; and an
\* id that was removed is never entered again.
C16_SessionLifecycle ==
    /\ [](/\ ptyProcesses = {id \in DOMAIN sessions : Running(sessions[id])}
          /\ \A id \in DOMAIN sessions :
                /\ Cardinality(Removers(sessions[id])) <= 1
                /\ sessions[id].removals = Cardinality(Removers(sessions[id]))
                /\ Running(sessions[id]) <=> Removers(sessions[id]) = {})
    /\ [][\A id \in DOMAIN sessions : id \notin ptyProcesses => id \notin ptyProcesses']_vars

\* The first session ended by the exit of its shell, and the close of its
\* socket found it gone; the second session is Running.
C16_Witness ==
    /\ Len(sessions) = 2
    /\ sessions[1].trace = <<"exit sent", "deleted by exit", "kill">>
    /\ sessions[1].ws = "closed"
    /\ Running(sessions[2])
    /\ ptyProcesses = {2}

\* The socket of session id closes or errors in this step, the session Running.
TransportEnds(id) ==
    /\ Running(sessions[id])
    /\ sessions'[id].ws # "open"

\* C20: when the socket of a Running session closes or errors, the process of
\* that session is killed and its entry removed, and nothing of another
\* session changes; once every socket has closed the registry is empty.
C20_CloseKillsOwnSession ==
    /\ [][\A id \in DOMAIN sessions :
            TransportEnds(id) =>
                /\ sessions'[id].kills = sessions[id].kills + 1
                /\ ptyProcesses' = ptyProcesses \ {id}
                /\ \A other \in DOMAIN sessions \ {id} : sessions'[other] = sessions[other]]_vars
    /\ []((\A id \in DOMAIN sessions : sessions[id].ws # "open")
            => /\ ptyProcesses = {}
               /\ \A id \in DOMAIN sessions : sessions[id].kills >= 1)

\* Of two Running sessions the first was closed: it was killed and removed,
\* and the second is as it was created.
C20_Witness ==
    /\ Len(sessions) = 2
    /\ sessions[1].ws = "closed"
    /\ sessions[1].trace = <<"kill", "deleted by close">>
    /\ sessions[2] = NewSession
    /\ ptyProcesses = {2}

(***************************************************************************)
(* The terminal component of the browser (PTYTerminal) with the server: it *)
(* connects when it is mounted, reads the messages of its socket in order, *)
(* and on an exit message sets a timer that calls connect() again.  The    *)
(* socket of the component and the socket of the server's handler are the  *)
(* two ends of one connection: readyState is OPEN while sessions[id].ws is *)
(* "open".  client.gotExit tells that the exit message of the current      *)
(* socket was read.  The user does nothing but type.                       *)
(***************************************************************************)
\* connect(): nothing when wsRef.current is OPEN, else a new WebSocket, which
\* the server's connection handler accepts.
ClientConnect(c) ==
    /\ IF c.conn # 0 /\ sessions[c.conn].ws = "open"
       THEN /\ client' = c
            /\ UNCHANGED <<sessions, ptyProcesses>>
       ELSE /\ Len(sessions) < MaxSessions
            /\ sessions' = Append(sessions, NewSession)
            /\ ptyProcesses' = ptyProcesses \cup {Len(sessions) + 1}
            /\ client' = [c EXCEPT !.conn = Len(sessions) + 1, !.read = 0,
                                   !.gotExit = FALSE, !.opened = @ + 1]
    /\ UNCHANGED <<fs, req, resp, spawned, nops, runnerVars, chatVars>>

\* useEffect: the component is mounted and connects.
Mount ==
    /\ client.opened = 0
    /\ ClientConnect(client)

\* ws.onmessage for the next message of the socket: an exit message sets the
\* timer of the automatic reconnect.
ClientReceives ==
    /\ client.conn # 0
    /\ client.read < Len(sessions[client.conn].sent)
    /\ client' = IF sessions[client.conn].sent[client.read + 1].type = "exit"
                 THEN [client EXCEPT !.read = @ + 1, !.gotExit = TRUE, !.timers = @ + 1]
                 ELSE [client EXCEPT !.read = @ + 1]
    /\ UNCHANGED <<fs, req, resp, spawned, nops, runnerVars, chatVars, sessions, ptyProcesses>>

\* setTimeout(() => connect(), 1000) fires.
ReconnectTimer ==
    /\ client.timers > 0
    /\ ClientConnect([client EXCEPT !.timers = @ - 1])

NextClient ==
    \/ Mount
    \/ ClientReceives
    \/ ReconnectTimer
    \/ PtyData
    \/ ClientMessage
    \/ ProcessExits
    \/ OnExit
    \/ WsError
    \/ WsClose

SpecClient == Init /\ [][NextClient]_vars

(***************************************************************************)
(* Claims about the terminal component.                                    *)
(***************************************************************************)
\* C21: after the component has read the exit message of its session it
\* reconnects by itself: once the timer set by the exit message has run, the
\* component is on a new connection with a new session (no exit message read
\* on its current socket remains without a reconnect pending).
C21_ReconnectsAfterExit ==
    client.gotExit => client.timers > 0

====
